---- MODULE Spec2Model ----
(***************************************************************************)
(* RunGraph: activity records -> per-day buckets -> intensity tiers ->     *)
(* week-aligned grid -> SVG markup (+ optional stats panel).               *)
(*                                                                         *)
(* Conventions of the model                                                *)
(*  - a time.Time is an instant counted in ticks; a day has TicksPerDay    *)
(*    ticks.  A *time.Location is a fixed UTC offset in ticks (time.UTC    *)
(*    is 0), so daylight-saving transitions are outside the model.         *)
(*  - a date key ("2006-01-02") is the number of the local calendar day;   *)
(*    day 0 is a Sunday.                                                   *)
(*  - float64 quantities are exact: integers where the code only adds,     *)
(*    normalised fractions <<num, den>> where it divides.                  *)
(***************************************************************************)
EXTENDS Integers, Sequences, FiniteSets, TLC

VARIABLES
    pc,            \* position of the running call
    cfg,           \* config.Config held by the Generator
    clock,         \* what time.Now() and the calendar answer during the run
    Activities,    \* ActivityAggregator.Activities (the input list)
    DailyData,     \* ActivityAggregator.DailyData: date key -> DailyActivity
    aggIdx,        \* index of the next record of the range loop in Aggregate
    range,         \* <<startDate, endDate>> resolved by GetDateRange
    ordered,       \* orderedDailyData returned by GetOrderedDates
    heatmap,       \* *HeatmapData built by NewHeatmapData
    svgContent,    \* markup produced so far by GenerateHeatmap
    stats,         \* statistics computed by the processor package
    aggCalls,      \* invocations of Aggregate on the current aggregator
    returned,      \* markup returned by the earlier GenerateHeatmap calls
    keyDays,       \* dates of buckets handed to the weekly branch of
                   \* CalculatePeriodStats
    periodKeys     \* the periodKey computed for each of them

vars == <<pc, cfg, clock, Activities, DailyData, aggIdx, range, ordered,
          heatmap, svgContent, stats, aggCalls, returned, keyDays,
          periodKeys>>

----------------------------------------------------------------------------
(* Bounds *)

TicksPerDay == 4
MaxActs == 3
MaxRunActs == 2
MaxGridDays == 10
MaxTierDays == 5
MaxStreakDays == 6
DaysPerMonth == 9

----------------------------------------------------------------------------
(* package time, restricted to fixed-offset locations *)

Locations == {0, 1}

EndOfDay == TicksPerDay - 1

\* the instant of wall-clock (day, tod) in location loc: time.Date(...)
Date(day, tod, loc) == day * TicksPerDay + tod - loc

\* t.In(loc).Format("2006-01-02")
FormatDate(t, loc) == (t + loc) \div TicksPerDay

\* t.AddDate(0, 0, days)
AddDate(t, days) == t + days * TicksPerDay

\* t.In(loc).Weekday(), time.Sunday = 0
Weekday(t, loc) == FormatDate(t, loc) % 7

\* t.In(loc).Month() and t.In(loc).Year() in a calendar of twelve months of
\* DaysPerMonth days each
Month(t, loc) == ((FormatDate(t, loc) \div DaysPerMonth) % 12) + 1
Year(t, loc) == FormatDate(t, loc) \div (12 * DaysPerMonth)

----------------------------------------------------------------------------
(* exact fractions standing for float64 results of divisions *)

RECURSIVE GCD(_, _)
GCD(a, b) == IF b = 0 THEN a ELSE GCD(b, a % b)

Abs(x) == IF x < 0 THEN -x ELSE x

\* the fraction n/d (d > 0) in lowest terms
Frac(n, d) ==
    LET g == GCD(Abs(n), d)
    IN  IF n = 0 THEN <<0, 1>> ELSE <<n \div g, d \div g>>

FracLess(a, b) == a[1] * b[2] < b[1] * a[2]
FracLeq(a, b) == a[1] * b[2] <= b[1] * a[2]

\* a + b
FracAdd(a, b) == Frac(a[1] * b[2] + b[1] * a[2], a[2] * b[2])

----------------------------------------------------------------------------
(* package strava: records *)

\* strava.DailyActivity as created at part_002:140 (zero values elsewhere)
NewDailyActivity(date) ==
    [Date |-> date, Count |-> 0, TotalDistance |-> 0, TotalDuration |-> 0,
     TotalElevation |-> 0, Activities |-> <<>>, MaxHeartRate |-> 0,
     AvgHeartRate |-> <<0, 1>>, HasPR |-> FALSE, Types |-> <<>>]

\* variant of MapIncr that stores 1 instead of adding 1
MapIncr_StoreOne(m, k) == [x \in DOMAIN m \cup {k} |-> IF x = k THEN 1 ELSE m[x]]

\* m[k]++ on a Go map (a missing key reads as 0)
MapIncr(m, k) ==
    [x \in DOMAIN m \cup {k} |->
        IF x = k THEN (IF k \in DOMAIN m THEN m[k] ELSE 0) + 1 ELSE m[x]]

\* m[k] = v on a Go map
MapPut(m, k, v) == [x \in DOMAIN m \cup {k} |-> IF x = k THEN v ELSE m[x]]

----------------------------------------------------------------------------
(* package processor: ActivityAggregator *)

\* variant of UpdateAvgHeartRate without the branch of the first sample
UpdateAvgHeartRate_NoFirstSample(dailyActivity, activity) ==
    IF activity.AverageHeartrate > 0
    THEN LET avg == dailyActivity.AvgHeartRate
             n == dailyActivity.Count
         IN  Frac(avg[1] * (n - 1) + activity.AverageHeartrate * avg[2],
                  avg[2] * n)
    ELSE dailyActivity.AvgHeartRate

\* the running average of the heart rate, part_002:164-173
UpdateAvgHeartRate(dailyActivity, activity) ==
    IF activity.AverageHeartrate > 0
    THEN IF dailyActivity.AvgHeartRate[1] = 0
         THEN Frac(activity.AverageHeartrate, 1)
         ELSE LET avg == dailyActivity.AvgHeartRate
                  n == dailyActivity.Count
              IN  Frac(avg[1] * (n - 1) + activity.AverageHeartrate * avg[2],
                       avg[2] * n)
    ELSE dailyActivity.AvgHeartRate

\* variant of UpdateHasPR that assigns the flag of the last record
UpdateHasPR_Overwrite(dailyActivity, activity) == activity.PRCount > 0

\* if activity.PRCount > 0 { dailyActivity.HasPR = true }
UpdateHasPR(dailyActivity, activity) ==
    IF activity.PRCount > 0 THEN TRUE ELSE dailyActivity.HasPR

\* if activity.MaxHeartrate > dailyActivity.MaxHeartRate { ... }
UpdateMaxHeartRate(dailyActivity, activity) ==
    IF activity.MaxHeartrate > dailyActivity.MaxHeartRate
    THEN activity.MaxHeartrate
    ELSE dailyActivity.MaxHeartRate

\* variant of AggregateOne that takes the date key of the start instant in
\* UTC instead of the configured location
AggregateOne_UTCKey(data, activity, loc) ==
    LET localDate == activity.StartDate
        dateKey == FormatDate(localDate, 0)
        found == IF dateKey \in DOMAIN data THEN data[dateKey]
                 ELSE NewDailyActivity(localDate)
        counted == [found EXCEPT
                      !.Count = @ + 1,
                      !.TotalDistance = @ + activity.Distance,
                      !.TotalDuration = @ + activity.MovingTime,
                      !.TotalElevation = @ + activity.TotalElevGain,
                      !.Activities = Append(@, activity.ID),
                      !.Types = MapIncr(@, activity.Type)]
        updated == [counted EXCEPT
                      !.HasPR = UpdateHasPR(counted, activity),
                      !.AvgHeartRate = UpdateAvgHeartRate(counted, activity),
                      !.MaxHeartRate = UpdateMaxHeartRate(counted, activity)]
    IN  MapPut(data, dateKey, updated)

\* one iteration of the range loop of Aggregate: the bucket map afterwards
AggregateOne(data, activity, loc) ==
    LET localDate == activity.StartDate
        dateKey == FormatDate(localDate, loc)
        found == IF dateKey \in DOMAIN data THEN data[dateKey]
                 ELSE NewDailyActivity(localDate)
        counted == [found EXCEPT
                      !.Count = @ + 1,
                      !.TotalDistance = @ + activity.Distance,
                      !.TotalDuration = @ + activity.MovingTime,
                      !.TotalElevation = @ + activity.TotalElevGain,
                      !.Activities = Append(@, activity.ID),
                      !.Types = MapIncr(@, activity.Type)]
        updated == [counted EXCEPT
                      !.HasPR = UpdateHasPR(counted, activity),
                      !.AvgHeartRate = UpdateAvgHeartRate(counted, activity),
                      !.MaxHeartRate = UpdateMaxHeartRate(counted, activity)]
    IN  MapPut(data, dateKey, updated)

\* the whole range loop over a list, starting from the bucket map data
RECURSIVE AggregateAll(_, _, _)
AggregateAll(data, activities, loc) ==
    IF activities = <<>> THEN data
    ELSE AggregateAll(AggregateOne(data, Head(activities), loc),
                      Tail(activities), loc)

\* the fill loop of GetOrderedDates, part_002:188-204
RECURSIVE FillRange(_, _, _, _)
FillRange(current, endDate, data, loc) ==
    IF current > endDate THEN <<>>
    ELSE LET dateKey == FormatDate(current, loc)
             dailyActivity == IF dateKey \in DOMAIN data THEN data[dateKey]
                              ELSE NewDailyActivity(current)
         IN  <<dailyActivity>> \o FillRange(AddDate(current, 1), endDate, data, loc)

\* sort.Slice(result, Date.Before): insertion of x into a list sorted by Date
RECURSIVE InsertByDate(_, _)
InsertByDate(x, sorted) ==
    IF sorted = <<>> THEN <<x>>
    ELSE IF x.Date < Head(sorted).Date THEN <<x>> \o sorted
    ELSE <<Head(sorted)>> \o InsertByDate(x, Tail(sorted))

RECURSIVE SortByDate(_)
SortByDate(result) ==
    IF result = <<>> THEN <<>>
    ELSE InsertByDate(result[Len(result)], SortByDate(SubSeq(result, 1, Len(result) - 1)))

\* variant of GetOrderedDates whose fill loop starts one day late
GetOrderedDates_SkipFirst(data, startDate, endDate, loc) ==
    SortByDate(FillRange(AddDate(startDate, 1), endDate, data, loc))

\* ActivityAggregator.GetOrderedDates(startDate, endDate)
GetOrderedDates(data, startDate, endDate, loc) ==
    SortByDate(FillRange(startDate, endDate, data, loc))

----------------------------------------------------------------------------
(* Go arithmetic *)

\* a / b on Go ints with b > 0 (truncated towards zero), also int(x / b)
GoDiv(a, b) == IF a >= 0 THEN a \div b ELSE -((-a) \div b)

\* a % b on Go ints with b > 0 (the sign of a)
GoMod(a, b) == a - b * GoDiv(a, b)

----------------------------------------------------------------------------
(* package svg: intensity tiers, heatmap.go:558-639 *)

None == 0
Low == 1
Medium == 2
High == 3
VeryHigh == 4

\* the switch on metricType: the value of a bucket as a fraction
MetricValue(data, metricType) ==
    CASE metricType = "distance" -> Frac(data.TotalDistance, 1)
      [] metricType = "duration" -> Frac(data.TotalDuration, 1)
      [] metricType = "elevation" -> Frac(data.TotalElevation, 1)
      [] metricType = "heart_rate" -> data.AvgHeartRate
      [] metricType = "effort" ->
            IF data.TotalDuration > 0
            THEN Frac(data.TotalDistance * (100 + data.TotalElevation),
                      100 * data.TotalDuration)
            ELSE <<0, 1>>
      [] OTHER -> Frac(data.Count, 1)

\* variant of CollectValues that keeps the values equal to 0 as well
RECURSIVE CollectValues_WithZero(_, _)
CollectValues_WithZero(allActivities, metricType) ==
    IF allActivities = <<>> THEN <<>>
    ELSE LET data == Head(allActivities)
             rest == CollectValues_WithZero(Tail(allActivities), metricType)
         IN  IF data.Count = 0 THEN rest
             ELSE <<MetricValue(data, metricType)>> \o rest

\* the loop that collects the values > 0 of the buckets with Count > 0
RECURSIVE CollectValues(_, _)
CollectValues(allActivities, metricType) ==
    IF allActivities = <<>> THEN <<>>
    ELSE LET data == Head(allActivities)
             rest == CollectValues(Tail(allActivities), metricType)
             value == MetricValue(data, metricType)
         IN  IF data.Count = 0 THEN rest
             ELSE IF value[1] > 0 THEN <<value>> \o rest
             ELSE rest

\* sort.Float64s
RECURSIVE InsertValue(_, _)
InsertValue(x, sorted) ==
    IF sorted = <<>> THEN <<x>>
    ELSE IF FracLess(x, Head(sorted)) THEN <<x>> \o sorted
    ELSE <<Head(sorted)>> \o InsertValue(x, Tail(sorted))

RECURSIVE SortFloat64s(_)
SortFloat64s(values) ==
    IF values = <<>> THEN <<>>
    ELSE InsertValue(Head(values), SortFloat64s(Tail(values)))

\* sort.SearchFloat64s: binary search for the smallest 0-based index i in
\* [lo, hi) with a[i] >= x, hi if there is none
RECURSIVE Search(_, _, _, _)
Search(a, x, lo, hi) ==
    IF lo >= hi THEN lo
    ELSE LET h == (lo + hi) \div 2
         IN  IF FracLess(a[h + 1], x) THEN Search(a, x, h + 1, hi)
             ELSE Search(a, x, lo, h)

\* variant of SearchFloat64s that returns the index after the last value <= x
SearchFloat64s_After(a, x) ==
    Cardinality({ i \in 1..Len(a) : FracLeq(a[i], x) })

SearchFloat64s(a, x) == Search(a, x, 0, Len(a))

\* variant of TierOfPercentile whose two middle branches return each other's
\* tier
TierOfPercentile_MiddleSwapped(pos, n) ==
    IF 4 * pos <= n THEN Low
    ELSE IF 2 * pos <= n THEN High
    ELSE IF 4 * pos <= 3 * n THEN Medium
    ELSE VeryHigh

\* variant of TierOfPercentile with strict comparisons
TierOfPercentile_Strict(pos, n) ==
    IF 4 * pos < n THEN Low
    ELSE IF 2 * pos < n THEN Medium
    ELSE IF 4 * pos < 3 * n THEN High
    ELSE VeryHigh

\* percentile <= 0.25 / 0.5 / 0.75 with percentile = pos / n
TierOfPercentile(pos, n) ==
    IF 4 * pos <= n THEN Low
    ELSE IF 2 * pos <= n THEN Medium
    ELSE IF 4 * pos <= 3 * n THEN High
    ELSE VeryHigh

\* percentile := float64(pos) / float64(len(values)), for len(values) > 0
Percentile(day, metricType, allActivities) ==
    LET sorted == SortFloat64s(CollectValues(allActivities, metricType))
    IN  Frac(SearchFloat64s(sorted, MetricValue(day, metricType)), Len(sorted))

\* variant of calculateIntensity without the branch for len(values) == 0:
\* it searches the empty array and puts the day in the top tier
calculateIntensity_NoEmptyBranch(day, metricType, allActivities) ==
    IF day.Count = 0 THEN None
    ELSE LET sorted == SortFloat64s(CollectValues(allActivities, metricType))
             pos == SearchFloat64s(sorted, MetricValue(day, metricType))
         IN  IF Len(sorted) = 0 THEN VeryHigh
             ELSE TierOfPercentile(pos, Len(sorted))

\* calculateIntensity(day, metricType, allActivities)
calculateIntensity(day, metricType, allActivities) ==
    IF day.Count = 0 THEN None
    ELSE LET values == CollectValues(allActivities, metricType)
         IN  IF Len(values) = 0 THEN Low
             ELSE LET sorted == SortFloat64s(values)
                      pos == SearchFloat64s(sorted, MetricValue(day, metricType))
                  IN  TierOfPercentile(pos, Len(sorted))

----------------------------------------------------------------------------
(* package svg: color themes.  A color string is the sequence of its        *)
(* characters.                                                              *)

GithubColors ==
    <<<<"#", "e", "b", "e", "d", "f", "0">>,
      <<"#", "9", "b", "e", "9", "a", "8">>,
      <<"#", "4", "0", "c", "4", "6", "3">>,
      <<"#", "3", "0", "a", "1", "4", "e">>,
      <<"#", "2", "1", "6", "e", "3", "9">>>>

StravaColors ==
    <<<<"#", "4", "9", "4", "9", "5", "0">>,
      <<"#", "f", "f", "d", "4", "d", "1">>,
      <<"#", "f", "f", "a", "d", "9", "f">>,
      <<"#", "f", "c", "7", "5", "6", "6">>,
      <<"#", "e", "3", "4", "a", "3", "3">>>>

BlueColors ==
    <<<<"#", "e", "b", "e", "d", "f", "0">>,
      <<"#", "c", "0", "d", "b", "f", "1">>,
      <<"#", "7", "a", "b", "3", "e", "5">>,
      <<"#", "3", "2", "8", "2", "c", "e">>,
      <<"#", "0", "a", "6", "0", "b", "6">>>>

PurpleColors ==
    <<<<"#", "e", "b", "e", "d", "f", "0">>,
      <<"#", "d", "9", "c", "6", "e", "c">>,
      <<"#", "b", "8", "8", "8", "e", "0">>,
      <<"#", "9", "c", "4", "a", "c", "f">>,
      <<"#", "7", "2", "2", "2", "b", "c">>>>

GithubDarkColors ==
    <<<<"#", "1", "6", "1", "b", "2", "2">>,
      <<"#", "0", "e", "4", "4", "2", "9">>,
      <<"#", "0", "0", "6", "d", "3", "2">>,
      <<"#", "2", "6", "a", "6", "4", "1">>,
      <<"#", "3", "9", "d", "3", "5", "3">>>>

StravaDarkColors ==
    <<<<"#", "3", "6", "3", "6", "3", "c">>,
      <<"#", "7", "c", "2", "c", "2", "a">>,
      <<"#", "a", "6", "3", "b", "3", "3">>,
      <<"#", "d", "6", "4", "c", "3", "b">>,
      <<"#", "f", "c", "7", "5", "6", "6">>>>

BlueDarkColors ==
    <<<<"#", "1", "6", "1", "b", "2", "2">>,
      <<"#", "0", "d", "2", "c", "4", "a">>,
      <<"#", "1", "6", "4", "8", "7", "9">>,
      <<"#", "2", "3", "6", "8", "a", "9">>,
      <<"#", "3", "2", "8", "2", "c", "e">>>>

PurpleDarkColors ==
    <<<<"#", "1", "6", "1", "b", "2", "2">>,
      <<"#", "2", "a", "1", "8", "4", "a">>,
      <<"#", "4", "2", "2", "8", "7", "3">>,
      <<"#", "6", "1", "3", "5", "9", "c">>,
      <<"#", "8", "0", "4", "7", "c", "9">>>>

\* GetTheme(name, customColors)
GetTheme(name, customColors) ==
    CASE name = "github" -> [Name |-> "github", Colors |-> GithubColors]
      [] name = "strava" -> [Name |-> "strava", Colors |-> StravaColors]
      [] name = "blue" -> [Name |-> "blue", Colors |-> BlueColors]
      [] name = "purple" -> [Name |-> "purple", Colors |-> PurpleColors]
      [] name = "custom" /\ Len(customColors) = 5 ->
            [Name |-> "custom", Colors |-> customColors]
      [] OTHER -> [Name |-> "github", Colors |-> GithubColors]

\* GetDarkModeTheme(lightTheme, customDarkColors)
GetDarkModeTheme(lightTheme, customDarkColors) ==
    IF Len(customDarkColors) = 5
    THEN [Name |-> lightTheme.Name \o "-dark", Colors |-> customDarkColors]
    ELSE CASE lightTheme.Name = "strava" ->
                 [Name |-> "strava-dark", Colors |-> StravaDarkColors]
           [] lightTheme.Name = "blue" ->
                 [Name |-> "blue-dark", Colors |-> BlueDarkColors]
           [] lightTheme.Name = "purple" ->
                 [Name |-> "purple-dark", Colors |-> PurpleDarkColors]
           [] lightTheme.Name = "custom" ->
                 [Name |-> "custom-dark", Colors |-> GithubDarkColors]
           [] OTHER -> [Name |-> "github-dark", Colors |-> GithubDarkColors]

----------------------------------------------------------------------------
(* package svg: the grid, heatmap.go:40-159 *)

\* variant of dayOffset that does not wrap Sunday to the end of the week
dayOffset_NoWrap(weekStart, day) ==
    IF weekStart = "Monday" THEN day - 1 ELSE day

\* HeatmapData.dayOffset
dayOffset(weekStart, day) ==
    IF weekStart = "Monday"
    THEN IF day = 0 THEN 6 ELSE day - 1
    ELSE day

\* activityMap of createGrid: date key -> bucket, later entries overwrite
RECURSIVE ActivityMap(_, _)
ActivityMap(activities, loc) ==
    IF activities = <<>> THEN <<>>
    ELSE LET last == activities[Len(activities)]
             front == ActivityMap(SubSeq(activities, 1, Len(activities) - 1), loc)
         IN  MapPut(front, FormatDate(last.Date, loc), last)

\* startOffset, endOffset and totalDays of createGrid
StartOffset(h, loc) == dayOffset(h.WeekStart, Weekday(h.StartDate, loc))
EndOffset(h, loc) == 6 - dayOffset(h.WeekStart, Weekday(h.EndDate, loc))
TotalDays(startDate, endDate) == GoDiv(endDate - startDate, TicksPerDay) + 1

\* totalWeeks of createGrid
TotalWeeks(h, loc) ==
    LET sum == TotalDays(h.StartDate, h.EndDate) + StartOffset(h, loc)
                 + EndOffset(h, loc)
    IN  GoDiv(sum, 7) + (IF GoMod(sum, 7) > 0 THEN 1 ELSE 0)

\* createTooltip: what the text says
createTooltip(date, loc, found, activity) ==
    IF ~found \/ activity.Count = 0
    THEN [NoActivities |-> TRUE, Date |-> FormatDate(date, loc)]
    ELSE [NoActivities |-> FALSE, Date |-> FormatDate(date, loc),
          Count |-> activity.Count, Distance |-> activity.TotalDistance,
          Duration |-> activity.TotalDuration,
          Elevation |-> activity.TotalElevation, HasPR |-> activity.HasPR]

\* the cell that createGrid stores for the day current
GridCell(current, activityMap, activities, metricType, loc) ==
    LET dateKey == FormatDate(current, loc)
        exists == dateKey \in DOMAIN activityMap
        activity == IF exists THEN activityMap[dateKey] ELSE NewDailyActivity(current)
        active == exists /\ activity.Count > 0
    IN  [Date |-> current,
         Intensity |-> IF active
                       THEN calculateIntensity(activity, metricType, activities)
                       ELSE None,
         HasPR |-> IF active THEN activity.HasPR ELSE FALSE,
         Count |-> IF active THEN activity.Count ELSE 0,
         Tooltip |-> createTooltip(current, loc, exists, activity)]

\* HeatmapData.createGrid: Cells[week][day]; the weeks and days of the model
\* are numbered from 1 (week w of the model is index w-1 of the code)
createGrid(h, activities, metricType, loc) ==
    LET activityMap == ActivityMap(activities, loc)
        first == AddDate(h.StartDate, -StartOffset(h, loc))
    IN  [week \in 1..TotalWeeks(h, loc) |->
            [day \in 1..7 |->
                GridCell(AddDate(first, (week - 1) * 7 + (day - 1)),
                         activityMap, activities, metricType, loc)]]

\* t.In(loc).Day(), the day of the month counted from 1
DayOfMonth(t, loc) == (FormatDate(t, loc) % DaysPerMonth) + 1

\* the week labels of generateLabels: week.Format("Jan 2") of the first cell
\* of every other week, "" (here <<>>) for the weeks in between
WeekLabelsOf(h, loc) ==
    [i \in 1..Len(h.Cells) |->
        IF (i - 1) % 2 = 0
        THEN <<Month(h.Cells[i][1].Date, loc), DayOfMonth(h.Cells[i][1].Date, loc)>>
        ELSE <<>>]

\* the days of week w (counted from 1) whose month is not currentMonth
NewMonthDays(h, w, currentMonth, loc) ==
    { d \in 1..7 : Month(h.Cells[w][d].Date, loc) # currentMonth }

\* the month loop of generateLabels over the first n weeks:
\* <<monthLabels, currentMonth>>; a week adds the first of its days that
\* shows a month other than currentMonth and then breaks
RECURSIVE MonthScan(_, _, _)
MonthScan(h, n, loc) ==
    IF n = 0 THEN <<<<>>, 0 - 1>>
    ELSE LET before == MonthScan(h, n - 1, loc)
             fresh == NewMonthDays(h, n, before[2], loc)
         IN  IF fresh = {} THEN before
             ELSE LET day == CHOOSE d \in fresh : \A e \in fresh : d <= e
                      month == Month(h.Cells[n][day].Date, loc)
                  IN  <<Append(before[1], [Month |-> month, X |-> n - 1]),
                        month>>

\* HeatmapData.generateLabels: h.WeekLabels and h.MonthLabels
generateLabels(h, loc) ==
    [h EXCEPT !.WeekLabels = WeekLabelsOf(h, loc),
              !.MonthLabels = MonthScan(h, Len(h.Cells), loc)[1]]

\* the defaults of NewHeatmapData, heatmap.go:56-63
DefaultCellSize(cellSize) == IF cellSize < 5 THEN 11 ELSE cellSize
DefaultWeekStart(weekStart) ==
    IF weekStart # "Sunday" /\ weekStart # "Monday" THEN "Monday" ELSE weekStart

\* NewHeatmapData without the grid
HeatmapFields(startDate, endDate, colorScheme, customColors, darkModeColors, cellSize, weekStart, darkModeSupport) ==
    LET theme == GetTheme(colorScheme, customColors)
    IN  [StartDate |-> startDate, EndDate |-> endDate,
         ColorTheme |-> theme,
         DarkModeTheme |-> GetDarkModeTheme(theme, darkModeColors),
         CellSize |-> DefaultCellSize(cellSize), CellSpacing |-> 2,
         WeekStart |-> DefaultWeekStart(weekStart),
         DarkModeSupport |-> darkModeSupport, Cells |-> <<>>,
         WeekLabels |-> <<>>, MonthLabels |-> <<>>]

\* NewHeatmapData(activities, startDate, endDate, colorScheme, customColors,
\* darkModeColors, cellSize, weekStart, darkModeSupport, metricType); loc is
\* the location that startDate and endDate carry
NewHeatmapData(activities, startDate, endDate, colorScheme, customColors, darkModeColors, cellSize, weekStart, darkModeSupport, metricType, loc) ==
    LET h == HeatmapFields(startDate, endDate, colorScheme, customColors,
                           darkModeColors, cellSize, weekStart, darkModeSupport)
    IN  generateLabels([h EXCEPT
                          !.Cells = createGrid(h, activities, metricType, loc)],
                       loc)

----------------------------------------------------------------------------
(* package svg: rendering, heatmap.go:203-555.  Markup is the sequence of   *)
(* its elements in document order; an element is a record of its tag and    *)
(* the attributes written for it.                                           *)

\* variant of SkipCell that renders every slot of the grid
SkipCell_Never(h, cell) == FALSE

\* writeCells: if cell.Date.Before(h.StartDate) || cell.Date.After(h.EndDate)
\* { continue }
SkipCell(h, cell) == cell.Date < h.StartDate \/ cell.Date > h.EndDate

\* the elements that writeCells writes for Cells[week][day] (numbered from
\* 1); loc is the location that the dates of the grid carry
CellMarkup(h, week, day, totalWidth, loc) ==
    LET cell == h.Cells[week][day]
        x == (week - 1) * (h.CellSize + h.CellSpacing) + 70
        y == (day - 1) * (h.CellSize + h.CellSpacing) + 30
        tooltipX == IF x + h.CellSize + 5 + 200 > totalWidth
                    THEN x - 200 - 5
                    ELSE x + h.CellSize + 5
    IN  IF SkipCell(h, cell) THEN <<>>
        ELSE <<[tag |-> "rect", class |-> "heatmap-cell", x |-> x, y |-> y,
                width |-> h.CellSize, height |-> h.CellSize,
                intensity |-> cell.Intensity,
                date |-> FormatDate(cell.Date, loc),
                count |-> cell.Count, title |-> cell.Tooltip]>>
             \o (IF cell.HasPR
                 THEN <<[tag |-> "circle", class |-> "pr-marker",
                         cx |-> x + GoDiv(h.CellSize * 3, 4),
                         cy |-> y + GoDiv(h.CellSize * 1, 4),
                         r |-> GoDiv(h.CellSize, 6)]>>
                 ELSE <<>>)
             \o <<[tag |-> "g", class |-> "heatmap-tooltip", x |-> tooltipX,
                   y |-> y, width |-> 200, height |-> 80,
                   count |-> cell.Count, date |-> FormatDate(cell.Date, loc),
                   hasPR |-> cell.Count > 0 /\ cell.HasPR]>>

\* the nested loops of writeCells over the first n slots of the grid
RECURSIVE CellsMarkup(_, _, _, _)
CellsMarkup(h, n, totalWidth, loc) ==
    IF n = 0 THEN <<>>
    ELSE CellsMarkup(h, n - 1, totalWidth, loc)
           \o CellMarkup(h, ((n - 1) \div 7) + 1, ((n - 1) % 7) + 1,
                         totalWidth, loc)

\* the seven day-of-week labels of writeCells
DayLabels(h) ==
    [i \in 1..7 |->
        [tag |-> "text", class |-> "heatmap-day-label", x |-> 70 - 10,
         y |-> (i - 1) * (h.CellSize + h.CellSpacing) + 30
                 + GoDiv(h.CellSize, 2) + 5,
         label |-> IF h.WeekStart = "Monday" THEN i % 7 ELSE i - 1]]

\* HeatmapData.writeLegend
writeLegend(h, totalWidth) ==
    LET legendY == 7 * (h.CellSize + h.CellSpacing) + 50
        legendWidth == 5 * (h.CellSize + 2) + 100
        centerX == GoDiv(totalWidth - legendWidth, 2)
        boxSize == h.CellSize + 4
    IN  <<[tag |-> "g", class |-> "heatmap-legend", x |-> centerX, y |-> legendY]>>
        \o <<[tag |-> "text", class |-> "heatmap-legend-text", x |-> 0, y |-> 11,
              label |-> "Less"]>>
        \o [i \in 1..5 |->
              [tag |-> "rect", class |-> "heatmap-cell",
               x |-> 40 + (i - 1) * (boxSize + 4), y |-> 0,
               width |-> boxSize, height |-> boxSize, intensity |-> i - 1]]
        \o <<[tag |-> "text", class |-> "heatmap-legend-text",
              x |-> 40 + 5 * (boxSize + 4) + 5, y |-> 11, label |-> "More"]>>

\* the map monthYearStarts of writeMonthLabels: "month-year" of the first
\* cell of a week -> the first week (counted from 0) that shows it
monthYearStarts(h, loc) ==
    LET key(w) == <<Month(h.Cells[w][1].Date, loc), Year(h.Cells[w][1].Date, loc)>>
        weeks == { w \in 1..Len(h.Cells) : Len(h.Cells[w]) > 0 }
    IN  [k \in { key(w) : w \in weeks } |->
            (CHOOSE w \in weeks :
                key(w) = k /\ \A v \in weeks : key(v) = k => w <= v) - 1]

\* the orders in which `for monthYear, week := range monthYearStarts` may
\* visit the entries of the map
RangeOrders(m) ==
    { o \in [1..Cardinality(DOMAIN m) -> DOMAIN m] :
        \A i, j \in DOMAIN o : i # j => o[i] # o[j] }

\* sortedPositions as appended by the range loop visiting the map in order o
AppendPositions(m, o) ==
    [i \in 1..Len(o) |-> [monthYear |-> o[i], week |-> m[o[i]]]]

RECURSIVE InsertByWeek(_, _)
InsertByWeek(x, sorted) ==
    IF sorted = <<>> THEN <<x>>
    ELSE IF x.week < Head(sorted).week THEN <<x>> \o sorted
    ELSE <<Head(sorted)>> \o InsertByWeek(x, Tail(sorted))

\* variant of SortByWeek that leaves the positions as the range loop left them
SortByWeek_Unsorted(positions) == positions

\* sort.Slice(sortedPositions, ... .week < ... .week)
RECURSIVE SortByWeek(_)
SortByWeek(positions) ==
    IF positions = <<>> THEN <<>>
    ELSE InsertByWeek(positions[Len(positions)],
                      SortByWeek(SubSeq(positions, 1, Len(positions) - 1)))

\* the label loop of writeMonthLabels over the first n sorted positions:
\* <<the text elements written, lastLabelX>>
RECURSIVE MonthLabelLoop(_, _, _)
MonthLabelLoop(h, sorted, n) ==
    IF n = 0 THEN <<<<>>, -35 * 2>>
    ELSE LET before == MonthLabelLoop(h, sorted, n - 1)
             pos == sorted[n]
             x == pos.week * (h.CellSize + h.CellSpacing) + 70
         IN  IF n = 1 THEN before
             ELSE IF x - before[2] >= 35
                  THEN <<Append(before[1],
                                [tag |-> "text", class |-> "heatmap-month-label",
                                 x |-> x, y |-> 20, label |-> pos.monthYear[1]]),
                         x>>
                  ELSE before

\* HeatmapData.writeMonthLabels, the range loop visiting the map in order o
writeMonthLabels(h, loc, o) ==
    LET sorted == SortByWeek(AppendPositions(monthYearStarts(h, loc), o))
    IN  <<[tag |-> "g", class |-> "heatmap-month-labels"]>>
        \o MonthLabelLoop(h, sorted, Len(sorted))[1]

\* HeatmapData.writeStyle: the style element with the fill of the classes
\* intensity-0..4 and, with dark mode support, their fill inside the
\* prefers-color-scheme: dark block
writeStyle(h) ==
    <<[tag |-> "style",
       fill |-> [i \in 1..5 |-> h.ColorTheme.Colors[i]],
       darkFill |-> IF h.DarkModeSupport
                    THEN [i \in 1..5 |-> h.DarkModeTheme.Colors[i]]
                    ELSE <<>>]>>

\* the HeatmapData as RenderSVG leaves it: h.CellSpacing = 4
RenderSpacing(h) == [h EXCEPT !.CellSpacing = 4]

\* totalWidth and totalHeight of RenderSVG
RenderWidth(h) == Len(h.Cells) * (h.CellSize + RenderSpacing(h).CellSpacing) + 100
RenderHeight(h) == 7 * (h.CellSize + RenderSpacing(h).CellSpacing) + 80

\* HeatmapData.RenderSVG: the markup, the range loop of writeMonthLabels
\* visiting its map in order o
RenderSVG(h, loc, o) ==
    LET r == RenderSpacing(h)
        totalWidth == RenderWidth(h)
    IN  <<[tag |-> "svg", width |-> totalWidth, height |-> RenderHeight(h)]>>
        \o writeStyle(r)
        \o writeMonthLabels(r, loc, o)
        \o <<[tag |-> "g", class |-> "heatmap-week-labels"]>>
        \o <<[tag |-> "g", class |-> "heatmap-cells"]>>
        \o DayLabels(r)
        \o CellsMarkup(r, 7 * Len(r.Cells), totalWidth, loc)
        \o writeLegend(r, totalWidth)

----------------------------------------------------------------------------
(* package processor: MetricsCalculator, metrics.go:27-66 *)

\* variant of UpdateStreak that keeps the streak over a day without activity
UpdateStreak_NoReset(currentStreak, day) ==
    IF day.Count > 0 THEN currentStreak + 1 ELSE currentStreak

\* currentStreak++ on a day with activity, currentStreak = 0 otherwise
UpdateStreak(currentStreak, day) ==
    IF day.Count > 0 THEN currentStreak + 1 ELSE 0

\* the loop of CalculateOverallStats over the first n buckets:
\* <<stats, currentStreak>>
RECURSIVE OverallLoop(_, _)
OverallLoop(dailyData, n) ==
    IF n = 0
    THEN <<[TotalActivities |-> 0, TotalDistance |-> <<0, 1>>, TotalDuration |-> 0,
            TotalElevation |-> 0, ActivityTypes |-> <<>>, PRCount |-> 0,
            ActiveDays |-> 0, LongestStreak |-> 0], 0>>
    ELSE LET before == OverallLoop(dailyData, n - 1)
             st == before[1]
             currentStreak == before[2]
             day == dailyData[n]
             dist == Frac(st.TotalDistance[1] * 1000 + day.TotalDistance * st.TotalDistance[2],
                          st.TotalDistance[2] * 1000)
         IN  IF day.Count > 0
             THEN <<[st EXCEPT
                       !.TotalActivities = @ + day.Count,
                       !.TotalDistance = dist,
                       !.TotalDuration = @ + GoDiv(day.TotalDuration, 3600),
                       !.TotalElevation = @ + day.TotalElevation,
                       !.ActiveDays = @ + 1,
                       !.PRCount = @ + (IF day.HasPR THEN 1 ELSE 0),
                       !.ActivityTypes =
                          [t \in DOMAIN @ \cup DOMAIN day.Types |->
                              (IF t \in DOMAIN @ THEN @[t] ELSE 0)
                              + (IF t \in DOMAIN day.Types THEN day.Types[t] ELSE 0)],
                       !.LongestStreak =
                          IF UpdateStreak(currentStreak, day) > @
                          THEN UpdateStreak(currentStreak, day) ELSE @],
                    UpdateStreak(currentStreak, day)>>
             ELSE <<st, UpdateStreak(currentStreak, day)>>

\* MetricsCalculator.CalculateOverallStats
CalculateOverallStats(dailyData) == OverallLoop(dailyData, Len(dailyData))[1]

\* t.In(loc).ISOWeek(): the year and the week (from 1) of the Thursday of the
\* Monday-based week of t
ISOWeek(t, loc) ==
    LET wd == Weekday(t, loc)
        d == IF wd = 0 THEN 0 - 3 ELSE 4 - wd
        thursday == Date(FormatDate(t, loc) + d, 0, 0)
        yday == FormatDate(thursday, 0) % (12 * DaysPerMonth)
    IN  <<Year(thursday, 0), (yday \div 7) + 1>>

\* formatPeriodKey: January 1 of year plus (period-1)*7 days, formatted with
\* the layout "2006-W02", in which 2006 is the year and 02 the day of the
\* month
formatPeriodKey(year, period) ==
    LET t == AddDate(Date(year * 12 * DaysPerMonth, 0, 0), (period - 1) * 7)
    IN  <<Year(t, 0), "W", DayOfMonth(t, 0)>>

\* the switch on periodType of CalculatePeriodStats; <<>> stands for the
\* default branch, which skips the day
PeriodKey(day, periodType, loc) ==
    CASE periodType = "weekly" ->
            formatPeriodKey(ISOWeek(day.Date, loc)[1], ISOWeek(day.Date, loc)[2])
      [] periodType = "monthly" -> <<Year(day.Date, loc), Month(day.Date, loc)>>
      [] periodType = "yearly" -> <<Year(day.Date, loc)>>
      [] OTHER -> <<>>

\* variant of PeriodLoop that does not skip the buckets with Count = 0
RECURSIVE PeriodLoop_KeepEmpty(_, _, _, _)
PeriodLoop_KeepEmpty(dailyData, periodType, loc, n) ==
    IF n = 0 THEN <<>>
    ELSE LET periods == PeriodLoop_KeepEmpty(dailyData, periodType, loc, n - 1)
             day == dailyData[n]
             periodKey == PeriodKey(day, periodType, loc)
             period == IF periodKey \in DOMAIN periods THEN periods[periodKey]
                       ELSE [Period |-> periodKey, TotalDistance |-> <<0, 1>>,
                             TotalDuration |-> 0, TotalElevation |-> 0,
                             ActivityCount |-> 0]
         IN  IF periodKey = <<>> THEN periods
             ELSE MapPut(periods, periodKey,
                    [period EXCEPT
                       !.TotalDistance = FracAdd(@, Frac(day.TotalDistance, 1000)),
                       !.TotalDuration = @ + GoDiv(day.TotalDuration, 3600),
                       !.TotalElevation = @ + day.TotalElevation,
                       !.ActivityCount = @ + day.Count])

\* the map periods after the loop of CalculatePeriodStats over the first n
\* buckets
RECURSIVE PeriodLoop(_, _, _, _)
PeriodLoop(dailyData, periodType, loc, n) ==
    IF n = 0 THEN <<>>
    ELSE LET periods == PeriodLoop(dailyData, periodType, loc, n - 1)
             day == dailyData[n]
             periodKey == PeriodKey(day, periodType, loc)
             period == IF periodKey \in DOMAIN periods THEN periods[periodKey]
                       ELSE [Period |-> periodKey, TotalDistance |-> <<0, 1>>,
                             TotalDuration |-> 0, TotalElevation |-> 0,
                             ActivityCount |-> 0]
         IN  IF day.Count = 0 \/ periodKey = <<>> THEN periods
             ELSE MapPut(periods, periodKey,
                    [period EXCEPT
                       !.TotalDistance = FracAdd(@, Frac(day.TotalDistance, 1000)),
                       !.TotalDuration = @ + GoDiv(day.TotalDuration, 3600),
                       !.TotalElevation = @ + day.TotalElevation,
                       !.ActivityCount = @ + day.Count])

\* MetricsCalculator.CalculatePeriodStats, the final range loop visiting the
\* map periods in order o
CalculatePeriodStats(dailyData, periodType, loc, o) ==
    LET periods == PeriodLoop(dailyData, periodType, loc, Len(dailyData))
    IN  [i \in 1..Len(o) |-> periods[o[i]]]

----------------------------------------------------------------------------
(* package processor: effort score and StatsGenerator, metrics.go:148-183  *)
(* and stats.go                                                            *)

\* math.Min on fractions
FracMin(a, b) == IF FracLeq(a, b) THEN a ELSE b

\* math.Round(x), x >= 0 a fraction: half away from zero
Round(x) == (2 * x[1] + x[2]) \div (2 * x[2])

\* m.EndDate.Sub(m.StartDate).Hours() / 24
ElapsedDays(startDate, endDate) ==
    IF endDate >= startDate
    THEN Frac(endDate - startDate, TicksPerDay)
    ELSE <<-Frac(startDate - endDate, TicksPerDay)[1],
           Frac(startDate - endDate, TicksPerDay)[2]>>

\* totalDays of CalculateEffortScore
FrequencyDays(startDate, endDate) == ElapsedDays(startDate, endDate)

\* MetricsCalculator.CalculateEffortScore: the score as a fraction
CalculateEffortScore(dailyData, startDate, endDate) ==
    LET st == CalculateOverallStats(dailyData)
        distanceScore ==
            FracMin(Frac(st.TotalDistance[1], st.TotalDistance[2] * 10), <<100, 1>>)
        elevationBonus == FracMin(Frac(st.TotalElevation, 100), <<50, 1>>)
        durationFactor == FracMin(Frac(st.TotalDuration, 5), <<100, 1>>)
        totalDays == FrequencyDays(startDate, endDate)
        frequencyBonus ==
            IF totalDays[1] > 0
            THEN FracMin(Frac(st.ActiveDays * 50 * totalDays[2], totalDays[1]),
                         <<50, 1>>)
            ELSE <<0, 1>>
        streakBonus == FracMin(<<st.LongestStreak, 1>>, <<30, 1>>)
        prBonus == FracMin(<<st.PRCount * 2, 1>>, <<20, 1>>)
        rawScore ==
            FracAdd(FracAdd(FracAdd(distanceScore, elevationBonus),
                            FracAdd(Frac(durationFactor[1], durationFactor[2] * 2),
                                    frequencyBonus)),
                    FracAdd(Frac(streakBonus[1], streakBonus[2] * 2), prBonus))
        normalizedScore == FracMin(Frac(rawScore[1], rawScore[2] * 3), <<100, 1>>)
    IN  Frac(Round(Frac(normalizedScore[1] * 10, normalizedScore[2])), 10)

\* the switch of getTopDays on sg.MetricType
TopDayValue(day, metricType) ==
    CASE metricType = "distance" -> Frac(day.TotalDistance, 1000)
      [] metricType = "duration" -> Frac(day.TotalDuration, 3600)
      [] metricType = "elevation" -> Frac(day.TotalElevation, 1)
      [] metricType = "heart_rate" -> day.AvgHeartRate
      [] metricType = "effort" ->
            IF day.TotalDuration > 0
            THEN Frac(day.TotalDistance * (100 + day.TotalElevation),
                      100 * day.TotalDuration)
            ELSE <<0, 1>>
      [] OTHER -> Frac(day.Count, 1)

\* variant of TopDayCandidates that also collects the days without activity
RECURSIVE TopDayCandidates_KeepEmpty(_, _)
TopDayCandidates_KeepEmpty(dailyData, metricType) ==
    IF dailyData = <<>> THEN <<>>
    ELSE <<[day |-> Head(dailyData),
            value |-> TopDayValue(Head(dailyData), metricType)]>>
         \o TopDayCandidates_KeepEmpty(Tail(dailyData), metricType)

\* the loop of getTopDays that collects the days with activity
RECURSIVE TopDayCandidates(_, _)
TopDayCandidates(dailyData, metricType) ==
    IF dailyData = <<>> THEN <<>>
    ELSE LET day == Head(dailyData)
             rest == TopDayCandidates(Tail(dailyData), metricType)
         IN  IF day.Count = 0 THEN rest
             ELSE <<[day |-> day, value |-> TopDayValue(day, metricType)]>> \o rest

RECURSIVE InsertByValueDesc(_, _)
InsertByValueDesc(x, sorted) ==
    IF sorted = <<>> THEN <<x>>
    ELSE IF FracLess(Head(sorted).value, x.value) THEN <<x>> \o sorted
    ELSE <<Head(sorted)>> \o InsertByValueDesc(x, Tail(sorted))

\* sort.Slice(days, ... value > ... value), an insertion sort for the slices
\* of up to 12 entries that the runs produce
RECURSIVE SortByValueDesc(_)
SortByValueDesc(days) ==
    IF days = <<>> THEN <<>>
    ELSE InsertByValueDesc(days[Len(days)],
                           SortByValueDesc(SubSeq(days, 1, Len(days) - 1)))

\* StatsGenerator.getTopDays(n); loc is the location the dates carry
getTopDays(dailyData, metricType, n, loc) ==
    LET days == SortByValueDesc(TopDayCandidates(dailyData, metricType))
        m == IF Len(days) < n THEN Len(days) ELSE n
    IN  [i \in 1..m |->
            [date |-> FormatDate(days[i].day.Date, loc),
             dayOfWeek |-> Weekday(days[i].day.Date, loc),
             value |-> days[i].value,
             activityCount |-> days[i].day.Count,
             activities |-> days[i].day.Activities,
             types |-> days[i].day.Types,
             hasPR |-> days[i].day.HasPR]]

\* the first loop of getActivityTypeBreakdown over the first n buckets:
\* typeCounts, typeDistance (km) and typeDuration (minutes)
RECURSIVE TypeLoop(_, _)
TypeLoop(dailyData, n) ==
    IF n = 0 THEN [typeCounts |-> <<>>, typeDistance |-> <<>>, typeDuration |-> <<>>]
    ELSE LET before == TypeLoop(dailyData, n - 1)
             day == dailyData[n]
             keys == DOMAIN before.typeCounts \cup DOMAIN day.Types
             Old(m, t, zero) == IF t \in DOMAIN m THEN m[t] ELSE zero
         IN  IF day.Count = 0 THEN before
             ELSE [typeCounts |->
                      [t \in keys |->
                          Old(before.typeCounts, t, 0)
                          + (IF t \in DOMAIN day.Types THEN day.Types[t] ELSE 0)],
                   typeDistance |->
                      [t \in keys |->
                          IF t \in DOMAIN day.Types
                          THEN FracAdd(Old(before.typeDistance, t, <<0, 1>>),
                                       Frac(day.TotalDistance * day.Types[t],
                                            day.Count * 1000))
                          ELSE Old(before.typeDistance, t, <<0, 1>>)],
                   typeDuration |->
                      [t \in keys |->
                          Old(before.typeDuration, t, 0)
                          + (IF t \in DOMAIN day.Types
                             THEN GoDiv(day.TotalDuration * day.Types[t],
                                        day.Count * 60)
                             ELSE 0)]]

RECURSIVE InsertByCountDesc(_, _)
InsertByCountDesc(x, sorted) ==
    IF sorted = <<>> THEN <<x>>
    ELSE IF x.Count > Head(sorted).Count THEN <<x>> \o sorted
    ELSE <<Head(sorted)>> \o InsertByCountDesc(x, Tail(sorted))

\* sort.Slice(types, ... Count > ... Count)
RECURSIVE SortByCountDesc(_)
SortByCountDesc(types) ==
    IF types = <<>> THEN <<>>
    ELSE InsertByCountDesc(types[Len(types)],
                           SortByCountDesc(SubSeq(types, 1, Len(types) - 1)))

\* StatsGenerator.getActivityTypeBreakdown, the loop over typeCounts visiting
\* the map in order o
getActivityTypeBreakdown(dailyData, o) ==
    LET maps == TypeLoop(dailyData, Len(dailyData))
        totalActivities ==
            LET RECURSIVE Total(_)
                Total(S) == IF S = {} THEN 0
                            ELSE LET t == CHOOSE x \in S : TRUE
                                 IN  maps.typeCounts[t] + Total(S \ {t})
            IN  Total(DOMAIN maps.typeCounts)
    IN  [totalActivities |-> totalActivities,
         types |->
            SortByCountDesc(
                [i \in 1..Len(o) |->
                    [Type |-> o[i], Count |-> maps.typeCounts[o[i]],
                     Distance |-> maps.typeDistance[o[i]],
                     Duration |-> maps.typeDuration[o[i]],
                     Percent |-> IF totalActivities > 0
                                 THEN Frac(maps.typeCounts[o[i]] * 100,
                                           totalActivities)
                                 ELSE <<0, 1>>]])]

\* StatsGenerator.GenerateStats: the entries overall, weekly, monthly, yearly,
\* effortScore, topDays, activityBreakdown and timePeriod of the map; o is the
\* order of the range loop of getActivityTypeBreakdown, po those of the three
\* calls of CalculatePeriodStats
GenerateStats(dailyData, startDate, endDate, metricType, loc, o, po) ==
    [overall |-> CalculateOverallStats(dailyData),
     weekly |-> CalculatePeriodStats(dailyData, "weekly", loc, po[1]),
     monthly |-> CalculatePeriodStats(dailyData, "monthly", loc, po[2]),
     yearly |-> CalculatePeriodStats(dailyData, "yearly", loc, po[3]),
     effortScore |-> CalculateEffortScore(dailyData, startDate, endDate),
     topDays |-> getTopDays(dailyData, metricType, 5, loc),
     activityBreakdown |-> getActivityTypeBreakdown(dailyData, o),
     timePeriod |->
        [start |-> FormatDate(startDate, loc), end |-> FormatDate(endDate, loc),
         totalDays |-> GoDiv(endDate - startDate, TicksPerDay) + 1]]

----------------------------------------------------------------------------
(* package svg: Generator, generator.go *)

StatsPanelWidth == 300
StatsPanelHeight == 200
CombineMargin == 10

\* Generator.generateStatsSVG
generateStatsSVG(st) ==
    <<[tag |-> "svg", width |-> StatsPanelWidth, height |-> StatsPanelHeight]>>
    \o <<[tag |-> "style"]>>
    \o <<[tag |-> "rect", class |-> "stats-panel", x |-> 0, y |-> 0,
          width |-> StatsPanelWidth, height |-> StatsPanelHeight]>>
    \o <<[tag |-> "text", class |-> "stats-title", x |-> 15, y |-> 30]>>
    \o <<[tag |-> "text", class |-> "stats-value", x |-> 150, y |-> 60,
          value |-> st.overall.TotalActivities]>>
    \o <<[tag |-> "text", class |-> "stats-value", x |-> 150, y |-> 85,
          value |-> st.overall.TotalDistance]>>
    \o <<[tag |-> "text", class |-> "stats-value", x |-> 150, y |-> 110,
          value |-> st.overall.TotalDuration]>>
    \o <<[tag |-> "text", class |-> "stats-value", x |-> 150, y |-> 135,
          value |-> st.overall.ActiveDays]>>
    \o <<[tag |-> "text", class |-> "stats-value", x |-> 150, y |-> 160,
          value |-> st.overall.LongestStreak]>>
    \o <<[tag |-> "text", class |-> "stats-value", x |-> 150, y |-> 185,
          value |-> st.overall.PRCount]>>

\* the first match of the regexp attr="(\d+)" in the markup: the attribute
\* of the first element that writes it with a value of digits only
RECURSIVE FirstAttr(_, _)
FirstAttr(svg, attr) ==
    IF svg = <<>> THEN 0
    ELSE IF attr \in DOMAIN Head(svg) /\ Head(svg)[attr] >= 0 THEN Head(svg)[attr]
    ELSE FirstAttr(Tail(svg), attr)

\* variant of extractSVGDimensions that returns height and width swapped
extractSVGDimensions_Swapped(svg) ==
    <<FirstAttr(svg, "height"), FirstAttr(svg, "width")>>

\* extractSVGDimensions
extractSVGDimensions(svg) == <<FirstAttr(svg, "width"), FirstAttr(svg, "height")>>

\* extractSVGContent: what stands between the first '>' and the last </svg>
extractSVGContent(svg) == IF svg = <<>> THEN <<>> ELSE Tail(svg)

\* Generator.combineHeatmapAndStats
combineHeatmapAndStats(heatmapSVG, statsSVG) ==
    LET hd == extractSVGDimensions(heatmapSVG)
        sd == extractSVGDimensions(statsSVG)
        totalWidth == hd[1] + sd[1] + CombineMargin
        totalHeight == IF hd[2] > sd[2] THEN hd[2] ELSE sd[2]
    IN  <<[tag |-> "svg", width |-> totalWidth, height |-> totalHeight]>>
        \o <<[tag |-> "g", class |-> "translate", x |-> 0, y |-> 0,
              content |-> extractSVGContent(heatmapSVG)]>>
        \o <<[tag |-> "g", class |-> "translate", x |-> hd[1] + CombineMargin,
              y |-> 0, content |-> extractSVGContent(statsSVG)]>>

----------------------------------------------------------------------------
(* package config *)

ValidDateRanges == {"1year", "all", "ytd", "custom"}
ValidWeekStarts == {"Sunday", "Monday"}
ValidMetricTypes == {"distance", "duration", "elevation", "effort", "heart_rate"}

\* time.LoadLocation(name) fails: a zone name is the offset it resolves to,
\* and the names that resolve are the members of Locations
LoadLocationErr(name) == name \notin Locations

\* Config.GetTimeZoneLocation: time.UTC together with an error for a name
\* that does not resolve
GetTimeZoneLocation(c) ==
    IF LoadLocationErr(c.TimeZone)
    THEN [loc |-> 0, err |-> TRUE]
    ELSE [loc |-> c.TimeZone, err |-> FALSE]

\* the err of Config.GetDateRange: the error of GetTimeZoneLocation, or a
\* custom date string that time.ParseInLocation("2006-01-02", ...) rejects
GetDateRangeErr(c) ==
    \/ GetTimeZoneLocation(c).err
    \/ c.DateRange = "custom" /\ ~c.CustomParses

\* Config.GetDateRange.  clk.now is time.Now(); for the modes that ask the
\* calendar ("one year ago", "January 1st") clk.span is the number of days
\* the calendar puts between the resolved start date and today.
GetDateRange(c, clk) ==
    LET loc == GetTimeZoneLocation(c).loc
        now == clk.now
    IN  CASE c.DateRange = "1year" -> <<AddDate(now, -clk.span), now>>
          [] c.DateRange = "ytd" ->
                <<Date(FormatDate(now, loc) - clk.span, 0, loc), now>>
          [] c.DateRange = "all" ->
                <<Date(FormatDate(now, loc) - clk.span, 0, loc), now>>
          [] c.DateRange = "custom" ->
                <<Date(c.CustomStart, 0, loc), Date(c.CustomEnd, EndOfDay, loc)>>

----------------------------------------------------------------------------
(* Inputs *)

\* what one activity record carries besides its id and start instant
Profiles ==
    { [Type |-> "Run", Distance |-> 10000, MovingTime |-> 3600,
       TotalElevGain |-> 100, PRCount |-> 1, AverageHeartrate |-> 100,
       MaxHeartrate |-> 150],
      [Type |-> "Ride", Distance |-> 20000, MovingTime |-> 1800,
       TotalElevGain |-> 0, PRCount |-> 0, AverageHeartrate |-> 200,
       MaxHeartrate |-> 180],
      [Type |-> "Yoga", Distance |-> 0, MovingTime |-> 0,
       TotalElevGain |-> 0, PRCount |-> 0, AverageHeartrate |-> 0,
       MaxHeartrate |-> 0] }

\* strava.SummaryActivity
Activity(id, startDate, p) ==
    [ID |-> id, StartDate |-> startDate, Type |-> p.Type,
     Distance |-> p.Distance, MovingTime |-> p.MovingTime,
     TotalElevGain |-> p.TotalElevGain, PRCount |-> p.PRCount,
     AverageHeartrate |-> p.AverageHeartrate, MaxHeartrate |-> p.MaxHeartrate]

\* the lists of at most n records starting at the instants of starts; the id
\* of a record is its position in the list as fetched
ActivityLists(n, starts) ==
    UNION { { [i \in 1..k |-> Activity(i, sp[i][1], sp[i][2])] :
                sp \in [1..k -> starts \X Profiles] } : k \in 0..n }

\* the first day that the runs look at (a Sunday)
Day0 == 2 * 7

NoHeatmap == [Cells |-> <<>>]
NoStats == [none |-> TRUE]

----------------------------------------------------------------------------
(* Aggregation: NewActivityAggregator, Aggregate, GetOrderedDates *)

\* one iteration of "for _, activity := range a.Activities"
AggregateStep ==
    /\ pc = "aggregate"
    /\ aggIdx <= Len(Activities)
    /\ DailyData' = AggregateOne(DailyData, Activities[aggIdx],
                                 GetTimeZoneLocation(cfg).loc)
    /\ aggIdx' = aggIdx + 1
    /\ UNCHANGED <<aggCalls, returned, pc, cfg, clock, Activities, range,
                   ordered, heatmap, svgContent, stats,
                   keyDays, periodKeys>>

\* the loop is over: return a.DailyData
AggregateReturn ==
    /\ pc = "aggregate"
    /\ aggIdx > Len(Activities)
    /\ pc' = "aggregated"
    /\ UNCHANGED <<aggCalls, returned, cfg, clock, Activities, DailyData,
                   aggIdx, range, ordered, heatmap, svgContent, stats,
                   keyDays, periodKeys>>

\* orderedDailyData := aggregator.GetOrderedDates(startDate, endDate)
GetOrderedDatesCall ==
    /\ pc = "aggregated"
    /\ ordered' = GetOrderedDates(DailyData, range[1], range[2],
                                  GetTimeZoneLocation(cfg).loc)
    /\ pc' = "ordered"
    /\ UNCHANGED <<aggCalls, returned, cfg, clock, Activities, DailyData,
                   aggIdx, range, heatmap, svgContent, stats,
                   keyDays, periodKeys>>

----------------------------------------------------------------------------
(* Generator.GenerateHeatmap, generator.go:29-100, call by call *)

\* startDate, endDate, err := g.Config.GetDateRange(), then
\* aggregator := processor.NewActivityAggregator(activities, location)
GetDateRangeCall ==
    /\ pc = "start"
    /\ GetDateRangeErr(cfg) = FALSE
    /\ range' = GetDateRange(cfg, clock)
    /\ DailyData' = <<>>
    /\ aggIdx' = 1
    /\ aggCalls' = 1
    /\ pc' = "aggregate"
    /\ UNCHANGED <<returned, cfg, clock, Activities, ordered, heatmap,
                   svgContent, stats,
                   keyDays, periodKeys>>

\* GetDateRange returns an error: GenerateHeatmap returns it
GetDateRangeError ==
    /\ pc = "start"
    /\ GetDateRangeErr(cfg)
    /\ pc' = "error"
    /\ UNCHANGED <<aggCalls, returned, cfg, clock, Activities, DailyData,
                   aggIdx, range, ordered, heatmap, svgContent, stats,
                   keyDays, periodKeys>>

\* heatmapData := NewHeatmapData(orderedDailyData, startDate, endDate, ...)
NewHeatmapDataCall ==
    /\ pc = "ordered"
    /\ LET h == HeatmapFields(range[1], range[2], cfg.ColorScheme,
                              cfg.CustomColors, cfg.DarkModeColors,
                              cfg.CellSize, cfg.WeekStart, cfg.DarkModeSupport)
       IN  TotalWeeks(h, cfg.TimeZone) >= 0
    /\ heatmap' = NewHeatmapData(ordered, range[1], range[2], cfg.ColorScheme,
                                 cfg.CustomColors, cfg.DarkModeColors,
                                 cfg.CellSize, cfg.WeekStart,
                                 cfg.DarkModeSupport, cfg.MetricType,
                                 cfg.TimeZone)
    /\ pc' = "heatmap"
    /\ UNCHANGED <<aggCalls, returned, cfg, clock, Activities, DailyData,
                   aggIdx, range, ordered, svgContent, stats,
                   keyDays, periodKeys>>

\* make([][]*HeatmapCell, totalWeeks) with totalWeeks < 0: run-time panic
NewHeatmapDataPanic ==
    /\ pc = "ordered"
    /\ LET h == HeatmapFields(range[1], range[2], cfg.ColorScheme,
                              cfg.CustomColors, cfg.DarkModeColors,
                              cfg.CellSize, cfg.WeekStart, cfg.DarkModeSupport)
       IN  TotalWeeks(h, cfg.TimeZone) < 0
    /\ pc' = "panic"
    /\ UNCHANGED <<aggCalls, returned, cfg, clock, Activities, DailyData,
                   aggIdx, range, ordered, heatmap, svgContent, stats,
                   keyDays, periodKeys>>

\* svgContent := heatmapData.RenderSVG()
RenderSVGCall ==
    /\ pc = "heatmap"
    /\ \E o \in RangeOrders(monthYearStarts(heatmap, cfg.TimeZone)) :
          svgContent' = RenderSVG(heatmap, cfg.TimeZone, o)
    /\ heatmap' = RenderSpacing(heatmap)
    /\ pc' = "rendered"
    /\ UNCHANGED <<aggCalls, returned, cfg, clock, Activities, DailyData,
                   aggIdx, range, ordered, stats,
                   keyDays, periodKeys>>

\* the orders in which the three calls of CalculatePeriodStats may visit
\* their maps
PeriodOrders(dailyData, loc) ==
    RangeOrders(PeriodLoop(dailyData, "weekly", loc, Len(dailyData)))
    \X RangeOrders(PeriodLoop(dailyData, "monthly", loc, Len(dailyData)))
    \X RangeOrders(PeriodLoop(dailyData, "yearly", loc, Len(dailyData)))

\* stats := statsGenerator.GenerateStats(); generateStatsSVG reads the entry
\* "overall" of the map only
GenerateStatsCall ==
    /\ pc = "rendered"
    /\ cfg.ShowStats
    /\ \E o \in RangeOrders(TypeLoop(ordered, Len(ordered)).typeCounts),
          po \in PeriodOrders(ordered, cfg.TimeZone) :
          stats' = GenerateStats(ordered, range[1], range[2], cfg.MetricType,
                                 cfg.TimeZone, o, po)
    /\ pc' = "stats"
    /\ UNCHANGED <<aggCalls, returned, cfg, clock, Activities, DailyData,
                   aggIdx, range, ordered, heatmap, svgContent,
                   keyDays, periodKeys>>

\* svgContent = g.combineHeatmapAndStats(svgContent, g.generateStatsSVG(stats))
CombineCall ==
    /\ pc = "stats"
    /\ svgContent' = combineHeatmapAndStats(svgContent, generateStatsSVG(stats))
    /\ pc' = "combined"
    /\ UNCHANGED <<aggCalls, returned, cfg, clock, Activities, DailyData,
                   aggIdx, range, ordered, heatmap, stats,
                   keyDays, periodKeys>>

\* the markup starts with "<svg": return svgContent, nil
ReturnCall ==
    /\ \/ pc = "rendered" /\ ~cfg.ShowStats
       \/ pc = "combined"
    /\ svgContent # <<>> /\ Head(svgContent).tag = "svg"
    /\ pc' = "done"
    /\ UNCHANGED <<aggCalls, returned, cfg, clock, Activities, DailyData,
                   aggIdx, range, ordered, heatmap, svgContent, stats,
                   keyDays, periodKeys>>

\* the date ranges of the runs: <<mode, custom start, custom end, whether
\* the custom date strings parse>>, the custom days counted from Day0.  Two
\* custom ranges are reversed.
RunRanges ==
    { <<"custom", 2, 3, TRUE>>, <<"custom", 3, 3, TRUE>>,
      <<"custom", 3, 2, TRUE>>, <<"custom", 30, 1, TRUE>>,
      <<"custom", 0, 0, FALSE>>, <<"1year", 0, 0, TRUE>>,
      <<"ytd", 0, 0, TRUE>>, <<"all", 0, 0, TRUE>> }

RunConfigs ==
    { [TimeZone |-> tz, DateRange |-> m[1], CustomStart |-> Day0 + m[2],
       CustomEnd |-> Day0 + m[3], MetricType |-> "distance",
       WeekStart |-> ws, CellSize |-> size, ShowStats |-> show,
       CustomParses |-> m[4], ColorScheme |-> "github",
       CustomColors |-> <<>>, DarkModeSupport |-> FALSE,
       DarkModeColors |-> <<>>] :
        tz \in Locations, m \in RunRanges, ws \in ValidWeekStarts,
        size \in {11, 20}, show \in BOOLEAN }

\* records start on Monday Day0+1 or in the last tick of Wednesday Day0+3 (UTC)
RunStarts == {Date(Day0 + 1, 1, 0), Date(Day0 + 3, EndOfDay, 0)}

Init ==
    /\ pc = "start"
    /\ cfg \in RunConfigs
    /\ clock = [now |-> Date(Day0 + 3, 2, 0), span |-> 2]
    /\ Activities \in ActivityLists(MaxRunActs, RunStarts)
    /\ DailyData = <<>>
    /\ aggIdx = 1
    /\ range = <<0, 0>>
    /\ ordered = <<>>
    /\ heatmap = NoHeatmap
    /\ svgContent = <<>>
    /\ stats = NoStats
    /\ aggCalls = 0
    /\ returned = <<>>
    /\ keyDays = <<>>
    /\ periodKeys = <<>>

Next ==
    \/ GetDateRangeCall
    \/ GetDateRangeError
    \/ AggregateStep
    \/ AggregateReturn
    \/ GetOrderedDatesCall
    \/ NewHeatmapDataCall
    \/ NewHeatmapDataPanic
    \/ RenderSVGCall
    \/ GenerateStatsCall
    \/ CombineCall
    \/ ReturnCall

Spec == Init /\ [][Next]_vars

\* the configurations of the aggregation runs: custom ranges (one of them
\* reversed) and the modes that start from time.Now()
AggConfigs ==
    { [TimeZone |-> tz, DateRange |-> m[1], CustomStart |-> Day0 + m[2],
       CustomEnd |-> Day0 + m[3], MetricType |-> "distance",
       WeekStart |-> "Monday", CellSize |-> 11, ShowStats |-> FALSE,
       CustomParses |-> TRUE, ColorScheme |-> "github",
       CustomColors |-> <<>>, DarkModeSupport |-> FALSE,
       DarkModeColors |-> <<>>] :
        tz \in Locations,
        m \in { <<"custom", 1, 1>>, <<"custom", 0, 2>>, <<"custom", 2, 1>>,
                <<"1year", 0, 0>>, <<"ytd", 0, 0>> } }

\* records start on day Day0+1: early, or in the last tick of the UTC day
AggStarts == {Date(Day0 + 1, 1, 0), Date(Day0 + 1, EndOfDay, 0)}

InitAgg ==
    /\ pc = "aggregate"
    /\ cfg \in AggConfigs
    /\ clock = [now |-> Date(Day0 + 2, 1, 0), span |-> 2]
    /\ Activities \in ActivityLists(MaxActs, AggStarts)
    /\ DailyData = <<>>
    /\ aggIdx = 1
    /\ range = GetDateRange(cfg, clock)
    /\ ordered = <<>>
    /\ heatmap = NoHeatmap
    /\ svgContent = <<>>
    /\ stats = NoStats
    /\ aggCalls = 1
    /\ returned = <<>>
    /\ keyDays = <<>>
    /\ periodKeys = <<>>

NextAgg == AggregateStep \/ AggregateReturn \/ GetOrderedDatesCall

SpecAgg == InitAgg /\ [][NextAgg]_vars

----------------------------------------------------------------------------
(* Grid runs: GenerateHeatmap up to RenderSVG over ranges that start on     *)
(* every weekday                                                            *)

\* custom ranges of 1..MaxGridDays days starting on Day0..Day0+6, and the
\* modes that count back from time.Now(): <<configuration, clock>>
GridRuns ==
    { <<[TimeZone |-> tz, DateRange |-> "custom", CustomStart |-> Day0 + s,
         CustomEnd |-> Day0 + s + n - 1, MetricType |-> "distance",
         WeekStart |-> ws, CellSize |-> 11, ShowStats |-> FALSE,
       CustomParses |-> TRUE, ColorScheme |-> "github",
       CustomColors |-> <<>>, DarkModeSupport |-> FALSE,
       DarkModeColors |-> <<>>],
        [now |-> Date(Day0 + 7, 2, 0), span |-> 0]>> :
        tz \in Locations, s \in 0..6, n \in 1..MaxGridDays,
        ws \in ValidWeekStarts }
    \cup
    { <<[TimeZone |-> tz, DateRange |-> m, CustomStart |-> 0, CustomEnd |-> 0,
         MetricType |-> "distance", WeekStart |-> ws, CellSize |-> 11,
         ShowStats |-> FALSE,
       CustomParses |-> TRUE, ColorScheme |-> "github",
       CustomColors |-> <<>>, DarkModeSupport |-> FALSE,
       DarkModeColors |-> <<>>],
        [now |-> Date(Day0 + 7 + d, 2, 0), span |-> n - 1]>> :
        tz \in Locations, m \in {"1year", "ytd"}, d \in 0..6,
        n \in 1..MaxGridDays, ws \in ValidWeekStarts }

\* no record, or one record with a PR on Sunday Day0+7
GridActs ==
    {<<>>} \cup { <<Activity(1, Date(Day0 + 7, 1, 0), p)>> :
                    p \in {q \in Profiles : q.PRCount > 0} }

InitGrid ==
    /\ pc = "start"
    /\ \E run \in GridRuns : cfg = run[1] /\ clock = run[2]
    /\ Activities \in GridActs
    /\ DailyData = <<>>
    /\ aggIdx = 1
    /\ range = <<0, 0>>
    /\ ordered = <<>>
    /\ heatmap = NoHeatmap
    /\ svgContent = <<>>
    /\ stats = NoStats
    /\ aggCalls = 0
    /\ returned = <<>>
    /\ keyDays = <<>>
    /\ periodKeys = <<>>

NextGrid ==
    \/ GetDateRangeCall
    \/ AggregateStep
    \/ AggregateReturn
    \/ GetOrderedDatesCall
    \/ NewHeatmapDataCall
    \/ RenderSVGCall

SpecGrid == InitGrid /\ [][NextGrid]_vars

----------------------------------------------------------------------------
(* Day plans: the buckets of a range given day by day.  plan[d] lists the   *)
(* kilometres of the records of day d of the range, <<>> for a rest day.    *)

\* a run of km kilometres and half an hour on day Day0+day
PlanActivity(id, day, km) ==
    Activity(id, Date(Day0 + day, 1, 0),
             [Type |-> "Run", Distance |-> km * 1000, MovingTime |-> 1800,
              TotalElevGain |-> 0, PRCount |-> 0, AverageHeartrate |-> 0,
              MaxHeartrate |-> 0])

RECURSIVE DayRecords(_, _, _)
DayRecords(kms, day, firstID) ==
    IF kms = <<>> THEN <<>>
    ELSE <<PlanActivity(firstID, day, Head(kms))>>
           \o DayRecords(Tail(kms), day, firstID + 1)

\* the activity list of the first n days of a plan
RECURSIVE PlanActivities(_, _)
PlanActivities(plan, n) ==
    IF n = 0 THEN <<>>
    ELSE LET front == PlanActivities(plan, n - 1)
         IN  front \o DayRecords(plan[n], n, Len(front) + 1)

PlanConfig(n, showStats) ==
    [TimeZone |-> 0, DateRange |-> "custom", CustomStart |-> Day0 + 1,
     CustomEnd |-> Day0 + n, MetricType |-> "distance", WeekStart |-> "Monday",
     CellSize |-> 11, ShowStats |-> showStats,
       CustomParses |-> TRUE, ColorScheme |-> "github",
       CustomColors |-> <<>>, DarkModeSupport |-> FALSE,
       DarkModeColors |-> <<>>]

\* GenerateHeatmap after GetOrderedDates for the range of the n days of plan
InitPlan(n, plan, showStats) ==
    /\ pc = "ordered"
    /\ cfg = PlanConfig(n, showStats)
    /\ clock = [now |-> Date(Day0 + n + 1, 1, 0), span |-> 0]
    /\ Activities = PlanActivities(plan, n)
    /\ DailyData = AggregateAll(<<>>, Activities, cfg.TimeZone)
    /\ aggIdx = Len(Activities) + 1
    /\ range = GetDateRange(cfg, clock)
    /\ ordered = GetOrderedDates(DailyData, range[1], range[2], cfg.TimeZone)
    /\ heatmap = NoHeatmap
    /\ svgContent = <<>>
    /\ stats = NoStats
    /\ aggCalls = 1
    /\ returned = <<>>
    /\ keyDays = <<>>
    /\ periodKeys = <<>>

\* tiers: every day rests or has one record of 0, 5, 10, 15 or 20 km
TierKm == {0, 5, 10, 15, 20}
TierOptions == {<<>>} \cup { <<km>> : km \in TierKm }

InitTier ==
    \E n \in 1..MaxTierDays : \E plan \in [1..n -> TierOptions] :
        InitPlan(n, plan, FALSE)

NextTier == NewHeatmapDataCall

SpecTier == InitTier /\ [][NextTier]_vars

\* streaks: every day rests or has one or two records
StreakOptions == {<<>>, <<5>>, <<5, 10>>}

InitStreak ==
    \E n \in 1..MaxStreakDays : \E plan \in [1..n -> StreakOptions] :
        InitPlan(n, plan, TRUE)

NextStreak ==
    \/ NewHeatmapDataCall
    \/ RenderSVGCall
    \/ GenerateStatsCall
    \/ CombineCall
    \/ ReturnCall

SpecStreak == InitStreak /\ [][NextStreak]_vars

----------------------------------------------------------------------------
(* Properties of the aggregation *)

\* the list acts read in the order p (a permutation of its indices)
Permute(acts, p) == [i \in 1..Len(acts) |-> acts[p[i]]]

Orderings(acts) == { Permute(acts, p) : p \in Permutations(1..Len(acts)) }

\* the indices of the first n records of Activities that fall on date key k
OnDate(k, n) ==
    { i \in 1..n : FormatDate(Activities[i].StartDate, cfg.TimeZone) = k }

RECURSIVE SumOver(_, _)
SumOver(S, f) ==
    IF S = {} THEN 0
    ELSE LET i == CHOOSE x \in S : TRUE IN f[i] + SumOver(S \ {i}, f)

Max(a, b) == IF a > b THEN a ELSE b

RECURSIVE MaxOver(_, _)
MaxOver(S, f) ==
    IF S = {} THEN 0
    ELSE LET i == CHOOSE x \in S : TRUE IN Max(f[i], MaxOver(S \ {i}, f))

AggregationDone == pc \in {"aggregated", "ordered"}

RangeForward == range[1] <= range[2]

\* <<date key, count>> of every bucket of a GetOrderedDates result
DatesAndCounts(result) ==
    [i \in 1..Len(result) |->
        <<FormatDate(result[i].Date, cfg.TimeZone), result[i].Count>>]

C6_AvgHeartRateOrderIndependent ==
    AggregationDone =>
        \A acts \in Orderings(Activities) :
            LET d == AggregateAll(<<>>, acts, cfg.TimeZone)
            IN  \A k \in DOMAIN DailyData :
                    d[k].AvgHeartRate = DailyData[k].AvgHeartRate

----------------------------------------------------------------------------
(* Properties of the grid and of its rendering *)

FirstKey == FormatDate(range[1], cfg.TimeZone)
LastKey == FormatDate(range[2], cfg.TimeZone)

\* the slots of the grid, <<week, day>>, and the date key of a slot
Slots == { <<w, d>> : w \in 1..Len(heatmap.Cells), d \in 1..7 }
SlotCell(s) == heatmap.Cells[s[1]][s[2]]
SlotKey(s) == FormatDate(SlotCell(s).Date, cfg.TimeZone)

GridBuilt == pc \in {"heatmap", "rendered", "stats", "combined", "done"}
Rendered == pc \in {"rendered", "stats", "combined", "done"}

\* the markup of the heatmap, alone or inside the combined document
HeatmapMarkup ==
    IF pc \in {"combined", "done"} /\ cfg.ShowStats
    THEN svgContent[2].content
    ELSE svgContent

\* a rect of class heatmap-cell with a data-date (the boxes of the legend
\* have the class but no date)
IsCellRect(e) ==
    /\ e.tag = "rect"
    /\ "class" \in DOMAIN e /\ e.class = "heatmap-cell"
    /\ "date" \in DOMAIN e

\* the positions of the cell rects written for date key k
RectsOf(k) ==
    { i \in 1..Len(HeatmapMarkup) :
        /\ IsCellRect(HeatmapMarkup[i])
        /\ HeatmapMarkup[i].date = k }

WeeksFor(n) == CHOOSE w \in 0..n : 7 * w >= n /\ 7 * (w - 1) < n

\* C9: the grid has ceil((days + leadingPad + trailingPad) / 7) weeks of 7
\* slots, leadingPad being the distance of start's weekday from the week
\* start and trailingPad 6 minus that of end's weekday; its first slot is
\* on the week-start weekday.  10 days from a Wednesday with weeks starting
\* on Monday: 2 weeks, 2 leading and 2 trailing padding slots.
C9_WeeksAndPadding ==
    (GridBuilt /\ RangeForward) =>
        LET days == LastKey - FirstKey + 1
            weekStartDay == IF cfg.WeekStart = "Monday" THEN 1 ELSE 0
            leadingPad == (Weekday(range[1], cfg.TimeZone) - weekStartDay) % 7
            trailingPad ==
                6 - ((Weekday(range[2], cfg.TimeZone) - weekStartDay) % 7)
            leading == { s \in Slots : SlotKey(s) < FirstKey }
            trailing == { s \in Slots : SlotKey(s) > LastKey }
        IN  /\ Len(heatmap.Cells) = WeeksFor(days + leadingPad + trailingPad)
            /\ \A w \in 1..Len(heatmap.Cells) : DOMAIN heatmap.Cells[w] = 1..7
            /\ Weekday(heatmap.Cells[1][1].Date, cfg.TimeZone) = weekStartDay
            /\ Cardinality(leading) = leadingPad
            /\ Cardinality(trailing) = trailingPad
            /\ (days = 10 /\ Weekday(range[1], cfg.TimeZone) = 3
                  /\ cfg.WeekStart = "Monday") =>
                    /\ Len(heatmap.Cells) = 2
                    /\ Cardinality(Slots) = 14
                    /\ Cardinality(leading) = 2
                    /\ Cardinality(trailing) = 2

\* C9 witness: the grid of a 10-day range that starts on a Wednesday, weeks
\* starting on Monday
C9_Witness ==
    /\ pc = "heatmap"
    /\ LastKey - FirstKey + 1 = 10
    /\ Weekday(range[1], cfg.TimeZone) = 3
    /\ cfg.WeekStart = "Monday"
    /\ Len(heatmap.Cells) = 2

----------------------------------------------------------------------------
(* Properties of the tiers *)

BucketValue(i) == MetricValue(ordered[i], cfg.MetricType)

\* the buckets with activity and a value > 0: the reference array
Reference ==
    { j \in 1..Len(ordered) : ordered[j].Count > 0 /\ BucketValue(j)[1] > 0 }

\* the reference values strictly smaller than the value of bucket i
Smaller(i) == { j \in Reference : FracLess(BucketValue(j), BucketValue(i)) }

\* the tier that the grid holds for bucket i
TierOf(i) ==
    LET s == CHOOSE x \in Slots :
                 SlotKey(x) = FormatDate(ordered[i].Date, cfg.TimeZone)
    IN  SlotCell(s).Intensity

\* C3: a bucket with count 0 has tier None.  For a bucket with count > 0 and
\* a non-empty reference array of length N, the position found by the search
\* is the number k of reference values strictly smaller than the bucket's
\* value, and the tier is Low if k/N <= 1/4, Medium if k/N <= 1/2, High if
\* k/N <= 3/4, VeryHigh otherwise.
C3_TierClassification ==
    pc = "heatmap" =>
        \A i \in 1..Len(ordered) :
            LET N == Cardinality(Reference)
                k == Cardinality(Smaller(i))
            IN  /\ ordered[i].Count = 0 => TierOf(i) = None
                /\ (ordered[i].Count > 0 /\ N > 0) =>
                     /\ Percentile(ordered[i], cfg.MetricType, ordered) = Frac(k, N)
                     /\ TierOf(i) = IF 4 * k <= N THEN Low
                                    ELSE IF 2 * k <= N THEN Medium
                                    ELSE IF 4 * k <= 3 * N THEN High
                                    ELSE VeryHigh

\* C3 witness: the five days 5, 5, 10, 15, 20 km with the tiers Low, Low,
\* Medium, High, VeryHigh
C3_Witness ==
    /\ pc = "heatmap"
    /\ Cardinality(Reference) = 5
    /\ \E i, j \in Reference : i # j /\ BucketValue(i) = BucketValue(j)
    /\ { TierOf(i) : i \in Reference } = {Low, Medium, High, VeryHigh}

\* five days with activity and duration > 0 whose distances are 0, 5, 10, 15
\* and 20 km
FiveValues ==
    /\ Len(ordered) = 5
    /\ \A i \in 1..5 : ordered[i].Count > 0 /\ ordered[i].TotalDuration > 0
    /\ { ordered[i].TotalDistance : i \in 1..5 } = { km * 1000 : km \in TierKm }

DayOfKm(km) == CHOOSE i \in 1..Len(ordered) : ordered[i].TotalDistance = km * 1000
RankOfKm(km) == Percentile(ordered[DayOfKm(km)], cfg.MetricType, ordered)

\* C4 as stated: the values 0, 5, 10, 15, 20 km have the percentile ranks
\* 0.0, 0.2, 0.4, 0.6, 0.8 and the tiers Low, Low, Medium, High, VeryHigh.
C4_RanksAsStated ==
    (pc = "heatmap" /\ FiveValues) =>
        /\ <<RankOfKm(0), RankOfKm(5), RankOfKm(10), RankOfKm(15), RankOfKm(20)>>
             = <<Frac(0, 5), Frac(1, 5), Frac(2, 5), Frac(3, 5), Frac(4, 5)>>
        /\ <<TierOf(DayOfKm(0)), TierOf(DayOfKm(5)), TierOf(DayOfKm(10)),
             TierOf(DayOfKm(15)), TierOf(DayOfKm(20))>>
             = <<Low, Low, Medium, High, VeryHigh>>

\* C4: the reference array of the values 0, 5, 10, 15, 20 km is 5, 10, 15,
\* 20 (the value 0 is not in it), so the percentile ranks are 0, 0, 0.25,
\* 0.5, 0.75 and the tiers Low, Low, Low, Medium, High.
C4_RanksOverPositiveValues ==
    (pc = "heatmap" /\ FiveValues) =>
        /\ <<RankOfKm(0), RankOfKm(5), RankOfKm(10), RankOfKm(15), RankOfKm(20)>>
             = <<Frac(0, 4), Frac(0, 4), Frac(1, 4), Frac(2, 4), Frac(3, 4)>>
        /\ <<TierOf(DayOfKm(0)), TierOf(DayOfKm(5)), TierOf(DayOfKm(10)),
             TierOf(DayOfKm(15)), TierOf(DayOfKm(20))>>
             = <<Low, Low, Low, Medium, High>>

\* C4 witness: the grid of the five days 20, 0, 10, 5, 15 km
C4_Witness ==
    /\ pc = "heatmap"
    /\ FiveValues
    /\ [i \in 1..5 |-> ordered[i].TotalDistance] = <<20000, 0, 10000, 5000, 15000>>

\* C5: when no bucket of the range has a value > 0 the buckets with
\* activity are Low and the others None; the classification completes.
C5_EmptyReference ==
    (pc = "heatmap" /\ Reference = {}) =>
        \A i \in 1..Len(ordered) :
            TierOf(i) = IF ordered[i].Count > 0 THEN Low ELSE None

\* C5 witness: a grid built from days of 0 km and a day of rest
C5_Witness ==
    /\ pc = "heatmap"
    /\ Reference = {}
    /\ \E i, j \in 1..Len(ordered) :
         i # j /\ ordered[i].Count > 0 /\ ordered[j].Count > 0
    /\ \E i \in 1..Len(ordered) : ordered[i].Count = 0

----------------------------------------------------------------------------
(* Properties of the statistics and of the combined document *)

StatsDone == pc \in {"stats", "combined", "done"}

\* the lengths of the runs of consecutive buckets with activity
RunLengths ==
    { n \in 1..Len(ordered) :
        \E i \in 1..(Len(ordered) - n + 1) :
            \A k \in i..(i + n - 1) : ordered[k].Count > 0 }

ActiveFlags == [i \in 1..Len(ordered) |-> IF ordered[i].Count > 0 THEN 1 ELSE 0]

\* C8: LongestStreak is the length of the longest run of consecutive buckets
\* with count > 0, a bucket with count 0 ending the run; the flags
\* 1,1,0,1,1,1 give 3, and no active bucket gives 0.
C8_LongestStreak ==
    StatsDone =>
        /\ \A n \in RunLengths : stats.overall.LongestStreak >= n
        /\ stats.overall.LongestStreak \in RunLengths \cup {0}
        /\ ActiveFlags = <<1, 1, 0, 1, 1, 1>> => stats.overall.LongestStreak = 3
        /\ (\A i \in 1..Len(ordered) : ordered[i].Count = 0) =>
              stats.overall.LongestStreak = 0

\* C8 witness: the statistics of the days 1,1,0,1,1,1
C8_Witness ==
    /\ StatsDone
    /\ ActiveFlags = <<1, 1, 0, 1, 1, 1>>
    /\ stats.overall.LongestStreak = 3

\* the markups RenderSVG may return for the heatmap
RenderedMarkups ==
    { RenderSVG(heatmap, cfg.TimeZone, o) :
        o \in RangeOrders(monthYearStarts(heatmap, cfg.TimeZone)) }

\* width and height of the heatmap block
HeatmapWidth == Len(heatmap.Cells) * (heatmap.CellSize + 4) + 100
HeatmapHeight == 7 * (heatmap.CellSize + 4) + 80

\* C10: without stats GenerateHeatmap returns the heatmap markup alone, as
\* wide as the heatmap; with stats the document is heatmap width + 300 + 10
\* wide, as high as the higher of the two blocks, and the stats block is
\* translated right by heatmap width + 10.
C10_CombinedCanvas ==
    pc = "done" =>
        IF ~cfg.ShowStats
        THEN /\ svgContent \in RenderedMarkups
             /\ svgContent[1].width = HeatmapWidth
             /\ svgContent[1].height = HeatmapHeight
             /\ \A i \in 1..Len(svgContent) :
                  "class" \in DOMAIN svgContent[i] =>
                      svgContent[i].class \notin {"stats-panel", "stats-value"}
        ELSE /\ svgContent[1].tag = "svg"
             /\ svgContent[1].width = HeatmapWidth + 300 + 10
             /\ svgContent[1].height =
                  (IF HeatmapHeight > 200 THEN HeatmapHeight ELSE 200)
             /\ \E m \in RenderedMarkups : svgContent[2].content = Tail(m)
             /\ svgContent[2].x = 0
             /\ svgContent[3].content = Tail(generateStatsSVG(stats))
             /\ svgContent[3].x = HeatmapWidth + 10
             /\ svgContent[3].y = 0

\* C10 witness: a combined document whose heatmap is higher than the stats
\* block
C10_Witness ==
    /\ pc = "done"
    /\ cfg.ShowStats
    /\ HeatmapHeight > 200
    /\ Len(heatmap.Cells) = 2
    /\ Activities # <<>>

----------------------------------------------------------------------------
(* Two calls of GenerateHeatmap on one Generator.  The aggregator, the     *)
(* HeatmapData and the string builders are locals of the call; the         *)
(* Generator keeps Config and Debug only.                                  *)

MaxReruns == 1

\* the caller has the markup and calls g.GenerateHeatmap(activities) again
GenerateAgain ==
    /\ pc = "done"
    /\ Len(returned) < MaxReruns
    /\ returned' = Append(returned, svgContent)
    /\ pc' = "start"
    /\ DailyData' = <<>>
    /\ aggIdx' = 1
    /\ aggCalls' = 0
    /\ range' = <<0, 0>>
    /\ ordered' = <<>>
    /\ heatmap' = NoHeatmap
    /\ svgContent' = <<>>
    /\ stats' = NoStats
    /\ UNCHANGED <<cfg, clock, Activities,
                   keyDays, periodKeys>>

\* custom ranges from Monday Day0+1: three days, and long enough for the
\* grid to show two and three months
RerunEnds == {3, 8, 16}

RerunConfigs ==
    { [TimeZone |-> tz, DateRange |-> "custom", CustomStart |-> Day0 + 1,
       CustomEnd |-> Day0 + e, MetricType |-> "distance",
       WeekStart |-> ws, CellSize |-> size, ShowStats |-> show,
       CustomParses |-> TRUE, ColorScheme |-> "github",
       CustomColors |-> <<>>, DarkModeSupport |-> FALSE,
       DarkModeColors |-> <<>>] :
        tz \in Locations, e \in RerunEnds, ws \in ValidWeekStarts,
        size \in {11, 20}, show \in BOOLEAN }

InitRerun ==
    /\ pc = "start"
    /\ cfg \in RerunConfigs
    /\ clock = [now |-> Date(Day0 + 3, 2, 0), span |-> 2]
    /\ Activities \in ActivityLists(1, RunStarts)
    /\ DailyData = <<>>
    /\ aggIdx = 1
    /\ range = <<0, 0>>
    /\ ordered = <<>>
    /\ heatmap = NoHeatmap
    /\ svgContent = <<>>
    /\ stats = NoStats
    /\ aggCalls = 0
    /\ returned = <<>>
    /\ keyDays = <<>>
    /\ periodKeys = <<>>

NextRerun ==
    \/ GetDateRangeCall
    \/ AggregateStep
    \/ AggregateReturn
    \/ GetOrderedDatesCall
    \/ NewHeatmapDataCall
    \/ RenderSVGCall
    \/ GenerateStatsCall
    \/ CombineCall
    \/ ReturnCall
    \/ GenerateAgain

SpecRerun == InitRerun /\ [][NextRerun]_vars

\* C11: a second call of GenerateHeatmap with the same records, configuration
\* and resolved range returns the markup of the first call, and the markup of
\* a call is the same whatever order the range loop of writeMonthLabels
\* visits its map in.
C11_SameMarkupOnRerun ==
    /\ (pc = "done" /\ returned # <<>>) => svgContent = returned[1]
    /\ (pc = "rendered") => RenderedMarkups = {svgContent}

\* C11 witness: the second call has returned a document with a stats panel
\* whose heatmap shows three months and carries a month label
C11_Witness ==
    /\ pc = "done"
    /\ returned # <<>>
    /\ cfg.ShowStats
    /\ Activities # <<>>
    /\ Cardinality(DOMAIN monthYearStarts(heatmap, cfg.TimeZone)) = 3
    /\ \E i \in 1..Len(HeatmapMarkup) :
          /\ "class" \in DOMAIN HeatmapMarkup[i]
          /\ HeatmapMarkup[i].class = "heatmap-month-label"

----------------------------------------------------------------------------
(* package config: ValidateConfig and LoadConfig.  Of a custom date string *)
(* the model keeps whether it is empty (CustomEmpty: Start or End is ""),   *)
(* whether time.ParseInLocation accepts it (CustomParses) and the day it    *)
(* names (CustomStart, CustomEnd).                                          *)

ValidColorSchemes == {"github", "strava", "blue", "purple", "custom"}
ValidStatTypes == {"weekly", "monthly", "yearly"}

HexDigits ==
    {"0", "1", "2", "3", "4", "5", "6", "7", "8", "9",
     "a", "b", "c", "d", "e", "f", "A", "B", "C", "D", "E", "F"}

\* variant of isHex that accepts every character
isHex_Any(str) == TRUE

\* isHex(s)
isHex(str) == \A i \in 1..Len(str) : str[i] \in HexDigits

\* isValidHexColor(color)
isValidHexColor(color) ==
    IF ~(Len(color) >= 1 /\ color[1] = "#") THEN FALSE
    ELSE LET hex == Tail(color)
         IN  (Len(hex) = 6 \/ Len(hex) = 3) /\ isHex(hex)

\* ValidateConfig, "Validate dark mode colors if dark mode is enabled"
ValidateDarkMode(config) ==
    IF config.DarkModeSupport
    THEN IF Len(config.DarkModeColors) # 5
         THEN "darkModeColors must contain exactly 5 colors"
         ELSE IF \E i \in 1..5 : ~isValidHexColor(config.DarkModeColors[i])
         THEN "invalid dark mode hex color"
         ELSE "nil"
    ELSE "nil"

\* ValidateConfig, "Validate stat types if stats are enabled"
ValidateStatTypes(config) ==
    IF config.ShowStats
    THEN IF Len(config.StatTypes) = 0
         THEN "statTypes cannot be empty when showStats is true"
         ELSE IF \E i \in 1..Len(config.StatTypes) :
                     config.StatTypes[i] \notin ValidStatTypes
         THEN "invalid statType"
         ELSE "nil"
    ELSE "nil"

\* ValidateConfig(config): the error returned, "nil" for none
ValidateConfig(config) ==
    IF Len(config.ActivityTypes) = 0 THEN "activityTypes cannot be empty"
    ELSE IF config.MetricType \notin ValidMetricTypes THEN "invalid metricType"
    ELSE IF config.ColorScheme \notin ValidColorSchemes
    THEN "invalid colorScheme"
    ELSE IF config.ColorScheme = "custom" /\ Len(config.CustomColors) # 5
    THEN "customColors must contain exactly 5 colors"
    ELSE IF /\ config.ColorScheme = "custom"
            /\ \E i \in 1..5 : ~isValidHexColor(config.CustomColors[i])
    THEN "invalid hex color"
    ELSE IF config.DateRange \notin ValidDateRanges THEN "invalid dateRange"
    ELSE IF config.DateRange = "custom" /\ config.CustomEmpty
    THEN "customDateRange must specify both start and end dates"
    ELSE IF config.CellSize < 5 \/ config.CellSize > 20
    THEN "cellSize must be between 5 and 20"
    ELSE IF config.IncludeLocationHeatmap /\ config.LocationPrivacyRadius < 0
    THEN "locationPrivacyRadius cannot be negative"
    ELSE IF config.WeekStart \notin ValidWeekStarts THEN "invalid weekStart"
    ELSE IF ValidateDarkMode(config) # "nil" THEN ValidateDarkMode(config)
    ELSE ValidateStatTypes(config)

\* LoadConfig after os.ReadFile and json.Unmarshal: the pair (*Config, error)
LoadConfig(config) ==
    IF ValidateConfig(config) # "nil"
    THEN [config |-> "nil", err |-> "invalid configuration"]
    ELSE [config |-> config, err |-> "nil"]

\* main: cfg, err := config.LoadConfig(configPath) without error; the
\* command goes on to GenerateHeatmap
LoadConfigOk ==
    /\ pc = "load"
    /\ LoadConfig(cfg).err = "nil"
    /\ pc' = "start"
    /\ UNCHANGED <<cfg, clock, Activities, DailyData, aggIdx, range, ordered,
                   heatmap, svgContent, stats, aggCalls, returned,
                   keyDays, periodKeys>>

\* main: LoadConfig returns an error: "Error loading configuration", exit
LoadConfigError ==
    /\ pc = "load"
    /\ LoadConfig(cfg).err # "nil"
    /\ pc' = "rejected"
    /\ UNCHANGED <<cfg, clock, Activities, DailyData, aggIdx, range, ordered,
                   heatmap, svgContent, stats, aggCalls, returned,
                   keyDays, periodKeys>>

\* a zone name that time.LoadLocation does not know
UnknownZone == 0 - 1

\* palettes of the configuration files: none, five colors, five colors of
\* three digits, four colors, and five with one entry that is not "#" and
\* 3 or 6 hex digits
BadColors ==
    { <<"#", "1", "2", "3", "4", "5", "g">>, <<"f", "f", "a", "d", "9", "f">>,
      <<"#", "f", "f", "a", "d">>, <<>> }

FilePalettes ==
    { <<>>, BlueColors, [i \in 1..5 |-> <<"#", "0", "A", "f">>],
      SubSeq(BlueColors, 1, 4) }
    \cup { [BlueColors EXCEPT ![3] = bad] : bad \in BadColors }

FileDarkPalettes ==
    { <<>>, StravaDarkColors, BlueDarkColors \o <<<<"#", "0", "0", "0", "0", "0", "0">>>>,
      [StravaDarkColors EXCEPT ![5] = <<"#", "1", "2", "3", "4", "5", "g">>] }

\* date ranges of the configuration files: <<mode, custom start, custom end,
\* the strings are non-empty, the strings parse>>
FileRanges ==
    { <<"1year", 0, 0, FALSE, FALSE>>, <<"custom", 2, 3, TRUE, TRUE>>,
      <<"custom", 30, 1, TRUE, TRUE>>, <<"custom", 0, 0, TRUE, FALSE>>,
      <<"custom", 0, 0, FALSE, FALSE>>, <<"week", 0, 0, FALSE, FALSE>> }

\* the decoded configuration files
FileConfigs ==
    { [ActivityTypes |-> types, MetricType |-> metric, ColorScheme |-> scheme,
       CustomColors |-> colors, ShowStats |-> show, StatTypes |-> <<"weekly">>,
       DateRange |-> m[1], CustomStart |-> Day0 + m[2],
       CustomEnd |-> Day0 + m[3], CustomEmpty |-> ~m[4], CustomParses |-> m[5],
       CellSize |-> 10, IncludeLocationHeatmap |-> FALSE,
       LocationPrivacyRadius |-> 0, DarkModeSupport |-> dark,
       DarkModeColors |-> darkColors, WeekStart |-> "Monday",
       TimeZone |-> tz] :
        types \in {<<>>, <<"Run", "Ride">>}, metric \in {"distance", "speed"},
        scheme \in {"strava", "custom", "rainbow"}, colors \in FilePalettes,
        show \in BOOLEAN, m \in FileRanges, dark \in BOOLEAN,
        darkColors \in FileDarkPalettes, tz \in {0, UnknownZone} }

InitLoad ==
    /\ pc = "load"
    /\ cfg \in FileConfigs
    /\ clock = [now |-> Date(Day0 + 3, 2, 0), span |-> 2]
    /\ Activities \in ActivityLists(1, {Date(Day0 + 2, 1, 0)})
    /\ DailyData = <<>>
    /\ aggIdx = 1
    /\ range = <<0, 0>>
    /\ ordered = <<>>
    /\ heatmap = NoHeatmap
    /\ svgContent = <<>>
    /\ stats = NoStats
    /\ aggCalls = 0
    /\ returned = <<>>
    /\ keyDays = <<>>
    /\ periodKeys = <<>>

NextLoad ==
    \/ LoadConfigOk
    \/ LoadConfigError
    \/ GetDateRangeCall
    \/ GetDateRangeError
    \/ AggregateStep
    \/ AggregateReturn
    \/ GetOrderedDatesCall
    \/ NewHeatmapDataCall
    \/ NewHeatmapDataPanic
    \/ RenderSVGCall
    \/ GenerateStatsCall
    \/ CombineCall
    \/ ReturnCall

SpecLoad == InitLoad /\ [][NextLoad]_vars

\* a color text is "#" followed by 3 or 6 hexadecimal digits
IsHexColorText(c) ==
    \E n \in {3, 6} :
        /\ Len(c) = n + 1
        /\ c[1] = "#"
        /\ \A i \in 2..(n + 1) : c[i] \in HexDigits

\* a palette that does not have exactly 5 entries or has a non-hex entry
Malformed(palette) ==
    \/ Len(palette) # 5
    \/ \E i \in 1..Len(palette) : ~IsHexColorText(palette[i])

\* the conditions under which C12 requires an error
MustReject(c) ==
    \/ c.MetricType \notin
          {"distance", "duration", "elevation", "effort", "heart_rate"}
    \/ c.ColorScheme \notin {"github", "strava", "blue", "purple", "custom"}
    \/ c.DateRange \notin {"1year", "all", "ytd", "custom"}
    \/ c.ColorScheme = "custom" /\ Malformed(c.CustomColors)
    \/ c.DarkModeSupport /\ Malformed(c.DarkModeColors)

C13_UnknownZoneFallsBackToUTC ==
    (LoadLocationErr(cfg.TimeZone) /\ pc # "load" /\ pc # "rejected") =>
        /\ pc # "error"
        /\ pc = "done" => svgContent # <<>>

\* C14: after a configuration is accepted by ValidateConfig no later stage
\* returns an error or panics, whatever the activity list, also for custom
\* ranges whose start is later than their end and for custom date strings
\* that passed validation.  (Stated for zone names that resolve; the
\* unresolved zone is the subject of C13.)
C14_NoFailureAfterValidation ==
    (ValidateConfig(cfg) = "nil" /\ ~LoadLocationErr(cfg.TimeZone)) =>
        pc \notin {"error", "panic"}

----------------------------------------------------------------------------
(* Properties of the statistics object *)

\* the calendar dates of the resolved range
RangeKeys == FirstKey..LastKey

\* C15: with an empty activity list and start <= end the run neither fails
\* nor panics; there is one bucket and one cell rect per date of the range,
\* every bucket and every cell has count 0 and tier None, and the statistics
\* are zero: total activities, distance, duration, elevation, active days, PR
\* count, longest streak and effort score are 0, the top days and the type
\* breakdown are empty.
C15_EmptyInputAllZero ==
    (Activities = <<>> /\ ~GetDateRangeErr(cfg)
        /\ GetDateRange(cfg, clock)[1] <= GetDateRange(cfg, clock)[2]) =>
        /\ pc \notin {"error", "panic"}
        /\ pc \in {"ordered", "heatmap", "rendered", "stats", "combined", "done"} =>
              /\ Len(ordered) = Cardinality(RangeKeys)
              /\ \A i \in 1..Len(ordered) :
                    /\ FormatDate(ordered[i].Date, cfg.TimeZone) = FirstKey + i - 1
                    /\ ordered[i].Count = 0
        /\ GridBuilt =>
              \A sl \in Slots :
                  SlotCell(sl).Count = 0 /\ SlotCell(sl).Intensity = None
        /\ Rendered =>
              /\ \A k \in RangeKeys : Cardinality(RectsOf(k)) = 1
              /\ \A i \in 1..Len(HeatmapMarkup) :
                    IsCellRect(HeatmapMarkup[i]) =>
                        /\ HeatmapMarkup[i].date \in RangeKeys
                        /\ HeatmapMarkup[i].count = 0
                        /\ HeatmapMarkup[i].intensity = None
        /\ (StatsDone /\ cfg.ShowStats) =>
              /\ stats.overall.TotalActivities = 0
              /\ stats.overall.TotalDistance = <<0, 1>>
              /\ stats.overall.TotalDuration = 0
              /\ stats.overall.TotalElevation = 0
              /\ stats.overall.ActiveDays = 0
              /\ stats.overall.PRCount = 0
              /\ stats.overall.LongestStreak = 0
              /\ stats.effortScore = <<0, 1>>
              /\ stats.topDays = <<>>
              /\ stats.activityBreakdown.types = <<>>
              /\ stats.activityBreakdown.totalActivities = 0

\* C15 witness: a run without records over a range of two dates has
\* returned the document with the stats panel
C15_Witness ==
    /\ pc = "done"
    /\ Activities = <<>>
    /\ cfg.ShowStats
    /\ range[1] <= range[2]
    /\ Cardinality(RangeKeys) = 2
    /\ stats.effortScore = <<0, 1>>
    /\ Cardinality({ i \in 1..Len(HeatmapMarkup) : IsCellRect(HeatmapMarkup[i]) }) = 2

\* the score of C16 from the overall statistics and a number of range days
ScoreOver(st, totalRangeDays) ==
    LET D == FracMin(Frac(st.TotalDistance[1], st.TotalDistance[2] * 10), <<100, 1>>)
        E == FracMin(Frac(st.TotalElevation, 100), <<50, 1>>)
        T == FracMin(Frac(st.TotalDuration, 5), <<100, 1>>)
        F == FracMin(Frac(st.ActiveDays * 50, totalRangeDays), <<50, 1>>)
        S == FracMin(<<st.LongestStreak, 1>>, <<30, 1>>)
        P == FracMin(<<st.PRCount * 2, 1>>, <<20, 1>>)
        sum == FracAdd(FracAdd(FracAdd(D, E), FracAdd(Frac(T[1], 2 * T[2]), F)),
                       FracAdd(Frac(S[1], 2 * S[2]), P))
        capped == FracMin(Frac(sum[1], 3 * sum[2]), <<100, 1>>)
    IN  Frac((20 * capped[1] + capped[2]) \div (2 * capped[2]), 10)

\* C16: the effort score is round1(min((D + E + 0.5*T + F + 0.5*S + P)/3, 100))
\* with D = min(km/10, 100), E = min(elevation/100, 50), T = min(hours/5, 100),
\* F = min(activeDays/totalRangeDays*50, 50) over the inclusive number of
\* calendar days of the range (the totalDays of the date-range metadata),
\* S = min(longestStreak, 30), P = min(prCount*2, 20); it lies in 0..100.
\* (Stated for the mode 1year, whose range is a whole number of days long.)
C16_EffortScoreFormula ==
    (StatsDone /\ cfg.ShowStats /\ cfg.DateRange = "1year") =>
        /\ stats.timePeriod.totalDays = Cardinality(RangeKeys)
        /\ stats.effortScore = ScoreOver(stats.overall, stats.timePeriod.totalDays)
        /\ FracLeq(<<0, 1>>, stats.effortScore)
        /\ FracLeq(stats.effortScore, <<100, 1>>)

----------------------------------------------------------------------------
(* Properties of the dark mode *)

\* the built-in dark variant of a built-in theme
DefaultDarkOf(scheme) ==
    CASE scheme = "github" -> GithubDarkColors
      [] scheme = "strava" -> StravaDarkColors
      [] scheme = "blue" -> BlueDarkColors
      [] scheme = "purple" -> PurpleDarkColors

\* the style element of the heatmap markup
HeatmapStyle ==
    HeatmapMarkup[CHOOSE i \in 1..Len(HeatmapMarkup) :
                      HeatmapMarkup[i].tag = "style"]

\* C17: a configuration with dark mode support and no dark palette, valid
\* otherwise, is accepted, and the dark style block then carries the default
\* dark variant of the selected built-in theme; with a dark palette of five
\* entries the block carries that palette.
C17_DarkModeDefaults ==
    /\ (/\ cfg.DarkModeSupport
        /\ cfg.DarkModeColors = <<>>
        /\ ValidateConfig([cfg EXCEPT !.DarkModeSupport = FALSE]) = "nil") =>
            /\ ValidateConfig(cfg) = "nil"
            /\ pc # "rejected"
    /\ (Rendered /\ cfg.DarkModeSupport) =>
            HeatmapStyle.darkFill =
                IF Len(cfg.DarkModeColors) = 5 THEN cfg.DarkModeColors
                ELSE DefaultDarkOf(cfg.ColorScheme)

----------------------------------------------------------------------------
(* Properties of the totals *)

\* the duration seconds of the buckets with activity, summed
RECURSIVE ActiveSeconds(_)
ActiveSeconds(dailyData) ==
    IF dailyData = <<>> THEN 0
    ELSE (IF Head(dailyData).Count > 0 THEN Head(dailyData).TotalDuration ELSE 0)
         + ActiveSeconds(Tail(dailyData))

\* C18: the total duration of the statistics is the duration seconds of all
\* buckets with activity, summed and then converted to whole hours once:
\* floor(total seconds / 3600).
C18_DurationTruncatedOnce ==
    (StatsDone /\ cfg.ShowStats) =>
        stats.overall.TotalDuration = ActiveSeconds(ordered) \div 3600

----------------------------------------------------------------------------
(* The stages called with a range given by the caller: GetOrderedDates,    *)
(* NewHeatmapData and NewStatsGenerator take startDate and endDate as       *)
(* parameters.  The runs start after NewActivityAggregator with any two    *)
(* instants start <= end, whatever their time of day.                       *)

MaxRangeDays == 3

\* the ranges start <= end over the days Day0+1..Day0+MaxRangeDays
GivenRanges(loc) ==
    { r \in { <<Date(Day0 + a, s, loc), Date(Day0 + b, e, loc)>> :
                a \in 1..MaxRangeDays, b \in 1..MaxRangeDays,
                s \in 0..EndOfDay, e \in 0..EndOfDay } :
        r[1] <= r[2] }

GivenConfigs ==
    { [TimeZone |-> tz, DateRange |-> "given", CustomStart |-> 0,
       CustomEnd |-> 0, MetricType |-> "distance", WeekStart |-> ws,
       CellSize |-> 11, ShowStats |-> TRUE, CustomParses |-> TRUE,
       ColorScheme |-> "github", CustomColors |-> <<>>,
       DarkModeSupport |-> FALSE, DarkModeColors |-> <<>>] :
        tz \in Locations, ws \in ValidWeekStarts }

InitRange ==
    /\ pc = "aggregate"
    /\ cfg \in GivenConfigs
    /\ clock = [now |-> Date(Day0 + MaxRangeDays, EndOfDay, 0), span |-> 0]
    /\ range \in GivenRanges(cfg.TimeZone)
    /\ Activities \in ActivityLists(1, {Date(Day0 + 2, 1, 0)})
    /\ DailyData = <<>>
    /\ aggIdx = 1
    /\ ordered = <<>>
    /\ heatmap = NoHeatmap
    /\ svgContent = <<>>
    /\ stats = NoStats
    /\ aggCalls = 1
    /\ returned = <<>>
    /\ keyDays = <<>>
    /\ periodKeys = <<>>

NextRange ==
    \/ AggregateStep
    \/ AggregateReturn
    \/ GetOrderedDatesCall
    \/ NewHeatmapDataCall
    \/ RenderSVGCall
    \/ GenerateStatsCall

SpecRange == InitRange /\ [][NextRange]_vars

\* the cell rects of the heatmap markup
CellRects == { i \in 1..Len(HeatmapMarkup) : IsCellRect(HeatmapMarkup[i]) }

\* C19: for start <= end, whatever the times of day, the totalDays of the
\* date-range metadata, the number of buckets of GetOrderedDates and the
\* number of cell rects of the markup all equal the number of calendar dates
\* from start's date to end's date.
C19_DayCountsAgree ==
    RangeForward =>
        /\ pc \in {"ordered", "heatmap", "rendered", "stats"} =>
              Len(ordered) = Cardinality(RangeKeys)
        /\ pc \in {"rendered", "stats"} =>
              Cardinality(CellRects) = Cardinality(RangeKeys)
        /\ pc = "stats" =>
              stats.timePeriod.totalDays = Cardinality(RangeKeys)

----------------------------------------------------------------------------
(* Aggregate invoked more than once on one ActivityAggregator *)

MaxAggregateCalls == 2

\* the caller invokes a.Aggregate() again: the range loop starts over on the
\* a.DailyData that NewActivityAggregator made
AggregateAgain ==
    /\ pc = "aggregated"
    /\ aggCalls < MaxAggregateCalls
    /\ aggCalls' = aggCalls + 1
    /\ aggIdx' = 1
    /\ pc' = "aggregate"
    /\ UNCHANGED <<cfg, clock, Activities, DailyData, range, ordered, heatmap,
                   svgContent, stats, returned,
                   keyDays, periodKeys>>

InitTwice ==
    /\ pc = "aggregate"
    /\ cfg \in AggConfigs
    /\ clock = [now |-> Date(Day0 + 2, 1, 0), span |-> 2]
    /\ Activities \in ActivityLists(MaxRunActs, AggStarts)
    /\ DailyData = <<>>
    /\ aggIdx = 1
    /\ range = GetDateRange(cfg, clock)
    /\ ordered = <<>>
    /\ heatmap = NoHeatmap
    /\ svgContent = <<>>
    /\ stats = NoStats
    /\ aggCalls = 1
    /\ returned = <<>>
    /\ keyDays = <<>>
    /\ periodKeys = <<>>

NextTwice ==
    \/ AggregateStep
    \/ AggregateReturn
    \/ AggregateAgain
    \/ GetOrderedDatesCall

SpecTwice == InitTwice /\ [][NextTwice]_vars

\* C20: whenever Aggregate returns, for the first or for a later time, the
\* buckets are those of one aggregation of the input list: counts, sums and
\* id lists are not accumulated again.
C20_AggregateStartsAfresh ==
    pc = "aggregated" =>
        DailyData = AggregateAll(<<>>, Activities, cfg.TimeZone)

----------------------------------------------------------------------------
(* The running average of the heart rate, step by step *)

\* the bucket of the record that the next iteration of Aggregate processes
StepKey == FormatDate(Activities[aggIdx].StartDate, cfg.TimeZone)

\* the average of that bucket before the iteration (0 for a new bucket)
OldAvg ==
    IF StepKey \in DOMAIN DailyData THEN DailyData[StepKey].AvgHeartRate
    ELSE <<0, 1>>

\* (oldAvg * (n - 1) + sample) / n
WeightedMean(oldAvg, n, sample) ==
    Frac(oldAvg[1] * (n - 1) + sample * oldAvg[2], oldAvg[2] * n)

\* an iteration of the loop of Aggregate has just been taken
IterationTaken == pc = "aggregate" /\ aggIdx' = aggIdx + 1

\* C21 as stated: every record with a positive heart-rate sample moves the
\* average of its bucket to (oldAvg * (n-1) + sample) / n, with n the count
\* of the bucket including the record and oldAvg 0 when no sample was seen
\* yet; a record without a positive sample leaves the average as it was.
C21_AverageAsStated ==
    [][IterationTaken =>
        LET a == Activities[aggIdx]
            n == DailyData'[StepKey].Count
        IN  DailyData'[StepKey].AvgHeartRate =
                IF a.AverageHeartrate > 0
                THEN WeightedMean(OldAvg, n, a.AverageHeartrate)
                ELSE OldAvg]_vars

\* C21 amended: a record with a positive sample sets the average of its
\* bucket to the sample itself when the average was 0 before it (no sample
\* seen yet), and to (oldAvg * (n-1) + sample) / n otherwise; a record
\* without a positive sample leaves the average as it was; the averages of
\* the other buckets do not change.
C21_AverageFirstSampleAsIs ==
    [][IterationTaken =>
        LET a == Activities[aggIdx]
            n == DailyData'[StepKey].Count
        IN  /\ DailyData'[StepKey].AvgHeartRate =
                 IF a.AverageHeartrate > 0
                 THEN IF OldAvg[1] = 0 THEN <<a.AverageHeartrate, 1>>
                      ELSE WeightedMean(OldAvg, n, a.AverageHeartrate)
                 ELSE OldAvg
            /\ n = (IF StepKey \in DOMAIN DailyData
                    THEN DailyData[StepKey].Count ELSE 0) + 1
            /\ \A k \in DOMAIN DailyData \ {StepKey} :
                 DailyData'[k].AvgHeartRate = DailyData[k].AvgHeartRate]_vars

\* C21 witness: one date received a record without a sample, then a first
\* sample of 100 (kept as is with n = 2), then a sample of 200 with n = 3,
\* which gives (100 * 2 + 200) / 3
C21_Witness ==
    /\ pc = "aggregate"
    /\ aggIdx = 4
    /\ Activities[1].AverageHeartrate = 0
    /\ Activities[2].AverageHeartrate = 100
    /\ Activities[3].AverageHeartrate = 200
    /\ \E k \in DOMAIN DailyData :
         /\ DailyData[k].Count = 3
         /\ DailyData[k].AvgHeartRate = <<400, 3>>

----------------------------------------------------------------------------
(* Month labels of the rendered heatmap *)

\* the month of a slot of the grid
SlotMonth(s) == Month(SlotCell(s).Date, cfg.TimeZone)

\* the months that the cells of the grid show, and the first one observed
GridMonths == { SlotMonth(s) : s \in Slots }
FirstMonthObserved == SlotMonth(<<1, 1>>)

\* the index (from 0) of the first week in which a date of month m appears
FirstWeekShowing(m) ==
    (CHOOSE w \in 1..Len(heatmap.Cells) :
        /\ \E d \in 1..7 : SlotMonth(<<w, d>>) = m
        /\ \A v \in 1..(w - 1) : \A d \in 1..7 : SlotMonth(<<v, d>>) # m) - 1

\* the month labels written into the markup: <<month, x>> of each text
RenderedMonthLabels ==
    { i \in 1..Len(HeatmapMarkup) :
        /\ HeatmapMarkup[i].tag = "text"
        /\ "class" \in DOMAIN HeatmapMarkup[i]
        /\ HeatmapMarkup[i].class = "heatmap-month-label" }

\* C22: every month after the first one observed in the chronological scan
\* of the cells has exactly one rendered label, at the x of the week in
\* which a date of that month first appears (also when the month begins in
\* the middle of a week); the first month observed has no label.  Stated
\* for grids that show at most two months, where a single label is expected
\* and the minimum distance between two labels plays no part.
C22_MonthLabelAtFirstAppearance ==
    (pc = "rendered" /\ Len(heatmap.Cells) > 0
        /\ Cardinality(GridMonths) <= 2) =>
        /\ \A m \in GridMonths \ {FirstMonthObserved} :
             Cardinality({ i \in RenderedMonthLabels :
                             /\ HeatmapMarkup[i].label = m
                             /\ HeatmapMarkup[i].x =
                                  FirstWeekShowing(m)
                                    * (heatmap.CellSize + heatmap.CellSpacing)
                                  + 70 }) = 1
        /\ \A i \in RenderedMonthLabels :
             HeatmapMarkup[i].label \in GridMonths \ {FirstMonthObserved}
        /\ Cardinality(RenderedMonthLabels)
             = Cardinality(GridMonths \ {FirstMonthObserved})

----------------------------------------------------------------------------
(* Rendering and the structures it is given *)

\* a step of RenderSVG, of GenerateStats with generateStatsSVG, or of
\* combineHeatmapAndStats
RenderingStep ==
    \/ pc = "heatmap" /\ pc' = "rendered"
    \/ pc = "rendered" /\ pc' = "stats"
    \/ pc = "stats" /\ pc' = "combined"

\* C23: rendering is read-only: RenderSVG and the generation of the stats
\* panel change no bucket and no field of the HeatmapData (cells, labels,
\* themes, cell size, cell spacing, week start); the HeatmapData after the
\* call equals the HeatmapData before the call.
C23_RenderingReadOnly ==
    [][RenderingStep =>
        /\ heatmap' = heatmap
        /\ ordered' = ordered
        /\ DailyData' = DailyData]_vars

----------------------------------------------------------------------------
(* Records around midnight: runs whose records start early on Monday        *)
(* Day0+1 or in the last tick of that day (UTC), over ranges that hold both *)
(* Day0+1 and Day0+2                                                        *)

ZoneStarts == {Date(Day0 + 1, 1, 0), Date(Day0 + 1, EndOfDay, 0)}

ZoneConfigs ==
    { [TimeZone |-> tz, DateRange |-> "custom", CustomStart |-> Day0 + m[1],
       CustomEnd |-> Day0 + m[2], MetricType |-> "distance",
       WeekStart |-> ws, CellSize |-> 11, ShowStats |-> FALSE,
       CustomParses |-> TRUE, ColorScheme |-> "github",
       CustomColors |-> <<>>, DarkModeSupport |-> FALSE,
       DarkModeColors |-> <<>>] :
        tz \in Locations, m \in {<<0, 2>>, <<1, 2>>, <<1, 1>>},
        ws \in ValidWeekStarts }

InitZone ==
    /\ pc = "start"
    /\ cfg \in ZoneConfigs
    /\ clock = [now |-> Date(Day0 + 3, 2, 0), span |-> 2]
    /\ Activities \in ActivityLists(MaxRunActs, ZoneStarts)
    /\ DailyData = <<>>
    /\ aggIdx = 1
    /\ range = <<0, 0>>
    /\ ordered = <<>>
    /\ heatmap = NoHeatmap
    /\ svgContent = <<>>
    /\ stats = NoStats
    /\ aggCalls = 0
    /\ returned = <<>>
    /\ keyDays = <<>>
    /\ periodKeys = <<>>

NextZone ==
    \/ GetDateRangeCall
    \/ AggregateStep
    \/ AggregateReturn
    \/ GetOrderedDatesCall
    \/ NewHeatmapDataCall

SpecZone == InitZone /\ [][NextZone]_vars

\* the ids that the bucket of date key k lists
BucketIds(k) == { DailyData[k].Activities[j] : j \in 1..Len(DailyData[k].Activities) }

\* the records processed so far
Processed == 1..(aggIdx - 1)

\* C24: a record is in the bucket of the calendar date of its start instant
\* in the configured location: two records share a bucket iff their local
\* dates are equal, a record starting in the last tick of a UTC day lands on
\* the next date in the zone ahead of UTC, and the bucket of a date of the
\* range is the one GetOrderedDates puts at that date and the one whose count
\* and PR flag the grid cell of that date shows.
C24_BucketOfLocalDate ==
    /\ \A i \in Processed :
         /\ FormatDate(Activities[i].StartDate, cfg.TimeZone) \in DOMAIN DailyData
         /\ \A k \in DOMAIN DailyData :
              Activities[i].ID \in BucketIds(k)
                <=> FormatDate(Activities[i].StartDate, cfg.TimeZone) = k
    /\ \A i, j \in Processed :
         (\E k \in DOMAIN DailyData :
             {Activities[i].ID, Activities[j].ID} \subseteq BucketIds(k))
           <=> FormatDate(Activities[i].StartDate, cfg.TimeZone)
                 = FormatDate(Activities[j].StartDate, cfg.TimeZone)
    /\ \A i \in Processed :
         (Activities[i].StartDate = Date(Day0 + 1, EndOfDay, 0)
            /\ cfg.TimeZone = 1) =>
              /\ Activities[i].ID \in BucketIds(Day0 + 2)
              /\ (Day0 + 1 \in DOMAIN DailyData =>
                    Activities[i].ID \notin BucketIds(Day0 + 1))
    /\ pc \in {"ordered", "heatmap"} =>
         \A k \in DOMAIN DailyData :
            (FirstKey <= k /\ k <= LastKey) =>
                ordered[k - FirstKey + 1] = DailyData[k]
    /\ pc = "heatmap" =>
         \A k \in DOMAIN DailyData :
            (FirstKey <= k /\ k <= LastKey) =>
                /\ Cardinality({ s \in Slots : SlotKey(s) = k }) = 1
                /\ \A s \in Slots :
                     SlotKey(s) = k =>
                        /\ SlotCell(s).Count = DailyData[k].Count
                        /\ SlotCell(s).HasPR = DailyData[k].HasPR

\* C24 witness: in the zone ahead of UTC a record of early Monday and a
\* record of the last tick of Monday (UTC) are in the buckets of Monday and
\* Tuesday, and the grid shows one record on each of the two dates
C24_Witness ==
    /\ pc = "heatmap"
    /\ cfg.TimeZone = 1
    /\ Len(Activities) = 2
    /\ Activities[1].StartDate = Date(Day0 + 1, 1, 0)
    /\ Activities[2].StartDate = Date(Day0 + 1, EndOfDay, 0)
    /\ DOMAIN DailyData = {Day0 + 1, Day0 + 2}
    /\ \A k \in {Day0 + 1, Day0 + 2} :
         \E s \in Slots : SlotKey(s) = k /\ SlotCell(s).Count = 1

----------------------------------------------------------------------------
(* Period statistics: runs over a custom range from Monday Day0+1 to the    *)
(* Monday MaxWeeks-1 weeks later, with up to two records that start on one  *)
(* of the Mondays or on the first Sunday                                    *)

MaxWeeks == 3

WeekStarts ==
    { Date(Day0 + 1 + 7 * k, 1, 0) : k \in 0..(MaxWeeks - 1) }
    \cup {Date(Day0 + 7, 1, 0)}

WeekConfigs ==
    { [TimeZone |-> tz, DateRange |-> "custom", CustomStart |-> Day0 + 1,
       CustomEnd |-> Day0 + 1 + 7 * (MaxWeeks - 1),
       MetricType |-> "distance",
       WeekStart |-> "Monday", CellSize |-> 11, ShowStats |-> TRUE,
       CustomParses |-> TRUE, ColorScheme |-> "github",
       CustomColors |-> <<>>, DarkModeSupport |-> FALSE,
       DarkModeColors |-> <<>>] : tz \in Locations }

InitWeeks ==
    /\ pc = "aggregate"
    /\ cfg \in WeekConfigs
    /\ clock = [now |-> Date(Day0 + 1 + 7 * (MaxWeeks - 1), 2, 0), span |-> 0]
    /\ Activities \in ActivityLists(MaxRunActs, WeekStarts)
    /\ DailyData = <<>>
    /\ aggIdx = 1
    /\ range = GetDateRange(cfg, clock)
    /\ ordered = <<>>
    /\ heatmap = NoHeatmap
    /\ svgContent = <<>>
    /\ stats = NoStats
    /\ aggCalls = 1
    /\ returned = <<>>
    /\ keyDays = <<>>
    /\ periodKeys = <<>>

NextWeeks ==
    \/ AggregateStep
    \/ AggregateReturn
    \/ GetOrderedDatesCall
    \/ NewHeatmapDataCall
    \/ RenderSVGCall
    \/ GenerateStatsCall

SpecWeeks == InitWeeks /\ [][NextWeeks]_vars


----------------------------------------------------------------------------
(* The weekly period key of two buckets: the weekly branch of the switch of *)
(* CalculatePeriodStats applied to the dates of two active days that lie    *)
(* up to MaxKeyDays days after Day0                                         *)

MaxKeyDays == 70

\* year, week := day.Date.ISOWeek(); periodKey = formatPeriodKey(year, week)
PeriodKeyCall ==
    /\ pc = "period"
    /\ periodKeys' =
          [i \in 1..Len(keyDays) |->
              PeriodKey([Date |-> keyDays[i]], "weekly", cfg.TimeZone)]
    /\ pc' = "keyed"
    /\ UNCHANGED <<aggCalls, returned, cfg, clock, Activities, DailyData,
                   aggIdx, range, ordered, heatmap, svgContent, stats,
                   keyDays>>

InitKeys ==
    /\ pc = "period"
    /\ cfg \in WeekConfigs
    /\ clock = [now |-> Date(Day0 + MaxKeyDays, 2, 0), span |-> 0]
    /\ Activities = <<>>
    /\ DailyData = <<>>
    /\ aggIdx = 1
    /\ range = <<0, 0>>
    /\ ordered = <<>>
    /\ heatmap = NoHeatmap
    /\ svgContent = <<>>
    /\ stats = NoStats
    /\ aggCalls = 0
    /\ returned = <<>>
    /\ keyDays \in [1..2 -> { Date(Day0 + d, 1, cfg.TimeZone) : d \in 1..MaxKeyDays }]
    /\ periodKeys = <<>>

NextKeys == PeriodKeyCall

SpecKeys == InitKeys /\ [][NextKeys]_vars

\* C25: weekly period statistics never merge different weeks: two active
\* days get the same weekly period key, hence the same weekly entry, iff
\* they have the same ISO (year, week); formatPeriodKey gives distinct keys
\* to distinct (year, week) pairs.
C25_WeeksNeverMerged ==
    pc = "keyed" =>
        (periodKeys[1] = periodKeys[2]
           <=> ISOWeek(keyDays[1], cfg.TimeZone) = ISOWeek(keyDays[2], cfg.TimeZone))

----------------------------------------------------------------------------
(* Order of the tiers *)

\* the buckets with count > 0
ActiveBuckets == { i \in 1..Len(ordered) : ordered[i].Count > 0 }

\* C26: tiers are monotone in the metric value: for two buckets with count
\* > 0 classified against the same buckets and metric, value(a) <= value(b)
\* implies tier(a) <= tier(b), and equal values receive equal tiers.
C26_TiersMonotone ==
    pc = "heatmap" =>
        \A a, b \in ActiveBuckets :
            /\ FracLeq(BucketValue(a), BucketValue(b)) => TierOf(a) <= TierOf(b)
            /\ BucketValue(a) = BucketValue(b) => TierOf(a) = TierOf(b)

\* C26 witness: among the active buckets two have the same value, one has
\* the value 0 and the same tier as a bucket of a larger value, and the tiers
\* Low, Medium and High all occur
C26_Witness ==
    /\ pc = "heatmap"
    /\ \E a, b \in ActiveBuckets : a # b /\ BucketValue(a) = BucketValue(b)
    /\ \E a, b \in ActiveBuckets :
         /\ BucketValue(a)[1] = 0
         /\ FracLess(BucketValue(a), BucketValue(b))
         /\ TierOf(a) = TierOf(b)
    /\ {Low, Medium, High} \subseteq { TierOf(a) : a \in ActiveBuckets }

\* C27: a bucket is VeryHigh only if strictly more than three quarters of
\* the reference values are strictly smaller than its value, hence only with
\* at least 5 positive reference values; with 4 or fewer no bucket is
\* VeryHigh; a bucket whose value is not greater than the smallest positive
\* reference value (an active bucket with value 0 included) is Low.
C27_VeryHighNeedsFiveValues ==
    pc = "heatmap" =>
        \A i \in ActiveBuckets :
            /\ TierOf(i) = VeryHigh =>
                 /\ 4 * Cardinality(Smaller(i)) > 3 * Cardinality(Reference)
                 /\ Cardinality(Reference) >= 5
            /\ Cardinality(Reference) <= 4 => TierOf(i) # VeryHigh
            /\ (\A j \in Reference : FracLeq(BucketValue(i), BucketValue(j)))
                 => TierOf(i) = Low

\* C27 witness: five positive reference values, the bucket of the largest is
\* VeryHigh and the bucket of the smallest is Low
C27_Witness ==
    /\ pc = "heatmap"
    /\ Cardinality(Reference) = 5
    /\ \E i \in ActiveBuckets :
         /\ TierOf(i) = VeryHigh
         /\ Cardinality(Smaller(i)) = 4
    /\ \E i \in ActiveBuckets :
         /\ TierOf(i) = Low
         /\ Smaller(i) = {}

----------------------------------------------------------------------------
(* Counts of the buckets and of the statistics *)

\* the sum of the values of the map m
MapTotal(m) == SumOver(DOMAIN m, m)

\* C28: after aggregating an activity list every bucket of the map has
\* count = sum of its per-type counts = length of its activity-id list and
\* count >= 1, and the counts of all buckets add up to the number of records
\* processed (the number of input records at the end); the TotalActivities
\* of the statistics equals the sum of their per-activity-type totals.
C28_CountsAgree ==
    /\ \A k \in DOMAIN DailyData :
         /\ DailyData[k].Count = MapTotal(DailyData[k].Types)
         /\ DailyData[k].Count = Len(DailyData[k].Activities)
         /\ DailyData[k].Count >= 1
    /\ pc \notin {"start", "error"} =>
         SumOver(DOMAIN DailyData, [k \in DOMAIN DailyData |-> DailyData[k].Count])
            = aggIdx - 1
    /\ AggregationDone =>
         SumOver(DOMAIN DailyData, [k \in DOMAIN DailyData |-> DailyData[k].Count])
            = Len(Activities)
    /\ (StatsDone /\ cfg.ShowStats) =>
         /\ stats.overall.TotalActivities = MapTotal(stats.overall.ActivityTypes)
         /\ stats.activityBreakdown.totalActivities = stats.overall.TotalActivities
         /\ SumOver(1..Len(stats.activityBreakdown.types),
                    [i \in 1..Len(stats.activityBreakdown.types) |->
                        stats.activityBreakdown.types[i].Count])
              = stats.overall.TotalActivities

\* C28 witness: statistics over a bucket of two records of one type and a
\* range that holds both records
C28_Witness ==
    /\ StatsDone /\ cfg.ShowStats
    /\ Len(Activities) = 2
    /\ \E k \in DOMAIN DailyData :
         /\ DailyData[k].Count = 2
         /\ Cardinality(DOMAIN DailyData[k].Types) = 1
    /\ stats.overall.TotalActivities = 2

----------------------------------------------------------------------------
(* Period statistics partition the active days *)

Granularities == {"weekly", "monthly", "yearly"}

\* the period keys of the active days for granularity g, and the active
\* days of one key
ActiveKeys(g) == { PeriodKey(ordered[i], g, cfg.TimeZone) : i \in ActiveBuckets }
DaysOfKey(g, k) ==
    { i \in ActiveBuckets : PeriodKey(ordered[i], g, cfg.TimeZone) = k }

\* C29: for each granularity the period statistics partition the active
\* days: there is exactly one entry per period that holds an active day, it
\* counts the activities of exactly the active days of that period, buckets
\* with count 0 add no entry and no count, and the ActivityCount of all
\* entries adds up to the overall TotalActivities; an unknown granularity
\* gives an empty result.
C29_PeriodsPartitionActiveDays ==
    (StatsDone /\ cfg.ShowStats) =>
        /\ \A g \in Granularities :
             LET e == stats[g]
             IN  /\ Len(e) = Cardinality(ActiveKeys(g))
                 /\ \A k \in ActiveKeys(g) :
                      /\ Cardinality({ j \in 1..Len(e) : e[j].Period = k }) = 1
                      /\ \A j \in 1..Len(e) :
                           e[j].Period = k =>
                              e[j].ActivityCount =
                                 SumOver(DaysOfKey(g, k),
                                         [i \in 1..Len(ordered) |-> ordered[i].Count])
                 /\ SumOver(1..Len(e), [j \in 1..Len(e) |-> e[j].ActivityCount])
                      = stats.overall.TotalActivities
        /\ \A o \in RangeOrders(PeriodLoop(ordered, "daily", cfg.TimeZone,
                                           Len(ordered))) :
             CalculatePeriodStats(ordered, "daily", cfg.TimeZone, o) = <<>>

\* C29 witness: two active days in different weeks and months of one year,
\* between buckets without activity
C29_Witness ==
    /\ StatsDone /\ cfg.ShowStats
    /\ Cardinality(ActiveBuckets) = 2
    /\ \E i \in 1..Len(ordered) : ordered[i].Count = 0
    /\ Len(stats.weekly) = 2
    /\ Len(stats.monthly) = 2
    /\ Len(stats.yearly) = 1
    /\ stats.overall.TotalActivities = 2

----------------------------------------------------------------------------
(* Geometry of the rendered heatmap *)

\* the legend group of the heatmap markup and its swatches (rects without a
\* date)
LegendGroups ==
    { i \in 1..Len(HeatmapMarkup) :
        HeatmapMarkup[i].tag = "g" /\ HeatmapMarkup[i].class = "heatmap-legend" }
LegendRects ==
    { i \in 1..Len(HeatmapMarkup) :
        HeatmapMarkup[i].tag = "rect" /\ "date" \notin DOMAIN HeatmapMarkup[i] }

\* the grid slots <<week, day>> (counted from 0) of the visible cells
VisibleSlots ==
    { s \in (0..(Len(heatmap.Cells) - 1)) \X (0..6) :
        ~SkipCell(heatmap, heatmap.Cells[s[1] + 1][s[2] + 1]) }

\* cellSize + spacing of the rendered heatmap
CellStep == heatmap.CellSize + heatmap.CellSpacing

\* every visible cell is drawn once, at the position of its slot, and row 0
\* is the configured week-start day
CellsPlaced ==
    /\ Cardinality(CellRects) = Cardinality(VisibleSlots)
    /\ \A s \in VisibleSlots :
         LET cell == heatmap.Cells[s[1] + 1][s[2] + 1]
         IN  /\ \E i \in CellRects :
                  /\ HeatmapMarkup[i].date = FormatDate(cell.Date, cfg.TimeZone)
                  /\ HeatmapMarkup[i].x = s[1] * CellStep + 70
                  /\ HeatmapMarkup[i].y = s[2] * CellStep + 30
                  /\ HeatmapMarkup[i].width = heatmap.CellSize
                  /\ HeatmapMarkup[i].height = heatmap.CellSize
             /\ Weekday(cell.Date, cfg.TimeZone)
                  = ((IF cfg.WeekStart = "Monday" THEN 1 ELSE 0) + s[2]) % 7

\* two distinct cell rectangles share no point
CellsDisjoint ==
    \A i, j \in CellRects :
        i # j =>
            LET a == HeatmapMarkup[i]
                b == HeatmapMarkup[j]
            IN  \/ a.x + a.width <= b.x
                \/ b.x + b.width <= a.x
                \/ a.y + a.height <= b.y
                \/ b.y + b.height <= a.y

\* every cell rectangle lies inside the canvas
CellsInsideCanvas ==
    \A i \in CellRects :
        /\ 0 <= HeatmapMarkup[i].x
        /\ HeatmapMarkup[i].x + HeatmapMarkup[i].width <= HeatmapMarkup[1].width
        /\ 0 <= HeatmapMarkup[i].y
        /\ HeatmapMarkup[i].y + HeatmapMarkup[i].height <= HeatmapMarkup[1].height

\* the five swatches of the legend, moved by the translation of the legend
\* group, lie inside the canvas
LegendInsideCanvas ==
    /\ Cardinality(LegendGroups) = 1
    /\ Cardinality(LegendRects) = 5
    /\ \A g \in LegendGroups, i \in LegendRects :
         /\ 0 <= HeatmapMarkup[g].x + HeatmapMarkup[i].x
         /\ HeatmapMarkup[g].x + HeatmapMarkup[i].x + HeatmapMarkup[i].width
              <= HeatmapMarkup[1].width
         /\ 0 <= HeatmapMarkup[g].y + HeatmapMarkup[i].y
         /\ HeatmapMarkup[g].y + HeatmapMarkup[i].y + HeatmapMarkup[i].height
              <= HeatmapMarkup[1].height

\* C30: in the rendered heatmap every visible cell of grid index (week, day)
\* is drawn at x = week*(cellSize+spacing)+70, y = day*(cellSize+spacing)+30,
\* row 0 being the configured week-start day; distinct cells never overlap;
\* every cell rectangle and the five swatches of the legend lie inside the
\* canvas of width weeks*(cellSize+spacing)+100 and height
\* 7*(cellSize+spacing)+80.
C30_CellsAndLegendInsideCanvas ==
    pc = "rendered" =>
        /\ HeatmapMarkup[1].width = Len(heatmap.Cells) * CellStep + 100
        /\ HeatmapMarkup[1].height = 7 * CellStep + 80
        /\ CellsPlaced
        /\ CellsDisjoint
        /\ CellsInsideCanvas
        /\ LegendInsideCanvas

============================================================================
